---- MODULE Spec2Model ----
(***************************************************************************)
(* Intake pipeline of ctf-rag: scraper (stage 1), trafilatura extraction   *)
(* with the quality gate (stage 2), AI batch processing (stage 3) and the  *)
(* MongoDB upsert (stage 4), run on one run directory, together with the   *)
(* global rejected-IDs log.  The stage scripts are started by hand in any   *)
(* order (Spec) or by Main.py on a fresh run directory (SpecRunner).       *)
(***************************************************************************)
EXTENDS Integers, Sequences, FiniteSets, TLC

\* ------------------------------------------------------------------ bounds
\* ctftime ids 1..MaxId appear on the write-ups listing.
MaxId == 2
\* Stage executions started on the run directory.
MaxRuns == 4
\* The largest id a line of a batch result may carry.
MaxResultId == 3
\* Executions of the storage stage on one set of final files.
MaxStoreRuns == 3
\* The longest text that is chunked, in tokens.
MaxTokens == 1300
\* Seconds of the clock and executions of the deploy script
MaxClock == 3
MaxDeployRuns == 3

\* ------------------------------------------------------- program constants
MIN_CONTENT_LENGTH == 300
CHUNK_SIZE == 500
CHUNK_OVERLAP == 75
\* ThreadPoolExecutor(max_workers=2) of the AI stage
max_workers == 2

Ids == 1..MaxId

\* Lengths of the text trafilatura extracts from a fetched document: just
\* below the quality threshold and at it.
Lens == {MIN_CONTENT_LENGTH - 1, MIN_CONTENT_LENGTH}
\* The extraction length of a raw file nobody has extracted yet.
Unknown == -1

\* ------------------------------------------------------------------- URLs
\* A URL is [site, n, frag]; NoUrl is Python's None.
NoUrl == [site |-> "none", n |-> 0, frag |-> ""]
\* BASE_URL + summary_path of write-up i.
SummaryUrl(i) == [site |-> "ctftime.org/writeup", n |-> i, frag |-> ""]
\* The "Original writeup" link of write-up i, when its page has one:
\* write-ups 1 and 2 are sections #s1, #s2 of one external page.
ExtUrl(i) == [site |-> "ext", n |-> IF i <= 2 THEN 1 ELSE i, frag |-> IF i <= 2 THEN IF i = 1 THEN "s1" ELSE "s2" ELSE ""]
\* urlunparse(parsed_url._replace(fragment=""))
StripFragment(u) == [u EXCEPT !.frag = ""]

\* -------------------------------------------------- rejected-IDs log file
\* The file is its lines (each a sequence of characters, "\n" removed) and
\* whether its last line ends with "\n"; the empty file has nl = TRUE.
DigitChars == {"0", "1", "2", "3", "4", "5", "6", "7", "8", "9"}
DigitVal == [c \in DigitChars |-> CASE c = "0" -> 0 [] c = "1" -> 1 [] c = "2" -> 2 [] c = "3" -> 3 [] c = "4" -> 4 [] c = "5" -> 5 [] c = "6" -> 6 [] c = "7" -> 7 [] c = "8" -> 8 [] OTHER -> 9]
DigitOf == <<"0", "1", "2", "3", "4", "5", "6", "7", "8", "9">>

RECURSIVE LStrip(_)
LStrip(s) == IF s # <<>> /\ Head(s) = " " THEN LStrip(Tail(s)) ELSE s

RECURSIVE RStrip(_)
RStrip(s) == IF s # <<>> /\ s[Len(s)] = " " THEN RStrip(SubSeq(s, 1, Len(s) - 1)) ELSE s

\* str.strip()
Strip(s) == RStrip(LStrip(s))

RECURSIVE BeforeHash(_)
\* line.split('#', 1)[0]
BeforeHash(s) == IF s = <<>> \/ Head(s) = "#" THEN <<>> ELSE <<Head(s)>> \o BeforeHash(Tail(s))

\* int(s) does not raise ValueError (s already stripped).
IsInt(s) == s # <<>> /\ \A k \in 1..Len(s) : s[k] \in DigitChars

RECURSIVE IntOf(_)
IntOf(s) == IF s = <<>> THEN 0 ELSE 10 * IntOf(SubSeq(s, 1, Len(s) - 1)) + DigitVal[s[Len(s)]]

RECURSIVE Decimal(_)
\* str(n) for n >= 0
Decimal(n) == IF n < 10 THEN <<DigitOf[n + 1]>> ELSE Decimal(n \div 10) \o <<DigitOf[(n % 10) + 1]>>

EmptyFile == [lines |-> <<>>, nl |-> TRUE]

\* 1_scrapper.get_rejected_ids: comment removed, stripped, malformed skipped.
GetRejectedIds(f) == {IntOf(Strip(BeforeHash(f.lines[k]))) : k \in {j \in 1..Len(f.lines) : IsInt(Strip(BeforeHash(f.lines[j])))}}

\* 2_process_trafilatura.get_existing_rejected_ids: one set comprehension
\* inside try/except (IOError, ValueError): any line that int() rejects
\* empties the whole result.
ExistingCandidates(f) == {k \in 1..Len(f.lines) : Strip(f.lines[k]) # <<>> /\ ~(f.lines[k] # <<>> /\ Head(f.lines[k]) = "#")}
GetExistingRejectedIds(f) == IF \A k \in ExistingCandidates(f) : IsInt(Strip(f.lines[k])) THEN {IntOf(Strip(f.lines[k])) : k \in ExistingCandidates(f)} ELSE {}

\* open(REJECTED_IDS_LOG, 'a').write(f"{ctftime_id}\n")
LedgerAppend(f, id) == IF f.nl THEN [lines |-> Append(f.lines, Decimal(id)), nl |-> TRUE] ELSE [lines |-> [f.lines EXCEPT ![Len(f.lines)] = @ \o Decimal(id)], nl |-> TRUE]

\* ------------------------------------------------------------------ state
\* ledger        Intake/rejected_ids.log (global)
\* rawFiles      <run>/output/{id}.html and {id}.summary.html: present or not
\* extractLen    len(trafilatura.extract(content)) of each raw file, fixed by
\*               the content and learnt when the file is first extracted
\* cleanedFiles  the files of <run>/processed_trafilatura
\* manifestDisk  <run>/run_manifest.json
\* reviewLog     <run>/manual_review.log, one entry per logged URL
\* aiFiles       ids with a final record in <run>/ai_processed
\* db            ctftime_ids stored in MongoDB
\* stage         the stage script running on the run directory (0: none)
\* idx .. ioErr  locals of extract_and_clean; ioErr: where each of the two
\*               process_single_file calls hit its except branch, if it did
\* all_tasks_for_ai, rewritten_texts   locals of the AI stage's main
\* phase         the batch job(s) the AI stage is waiting for
\* runs          stage executions started so far
\* s1            what the scraper run that has just finished read and did
\*               (cleared when another stage starts)
\* exit_status   how the stage process that ended last ended: its script,
\*               its exit status and the branch of the code it ended in
\* runner        Main.py's position in SCRIPTS_TO_RUN (Manual: not running)
\* log           the stage processes run_script has started, in order
VARIABLES exit_status, runner, log

VARIABLES ledger, rawFiles, extractLen, cleanedFiles, manifestDisk, reviewLog, aiFiles, db, stage, idx, manifest, existing_rejected_ids, cleaned_text_path, cleaned_summary_path, ioErr, all_tasks_for_ai, rewritten_texts, phase, runs, s1

\* The state of the run directory, of the global stores and of the stage
\* processes.
intakeVars == <<ledger, rawFiles, extractLen, cleanedFiles, manifestDisk, reviewLog, aiFiles, db, stage, idx, manifest, existing_rejected_ids, cleaned_text_path, cleaned_summary_path, ioErr, all_tasks_for_ai, rewritten_texts, phase, runs, s1>>
\* The state of Main.py and of the process exits it observes.
runVars == <<exit_status, runner, log>>

\* ai   the data of one execution of the AI stage, with the texts: the
\*      tasks, the requests built for the three jobs, the result lines of
\*      the job downloaded last, the three result mappings and the final
\*      records (SpecAI)
VARIABLES ai

\* store  the storage stage with the documents: the final JSON files of
\*        the run directory, the documents of the collection in insertion
\*        order, the files the running loop has still to visit, the number
\*        of executions that reached the database and the collection the
\*        first of them left (SpecStore)
VARIABLES store

\* resume the manifest and the rejected-IDs log as the extraction stage
\*        found them when it was first started (SpecResume)
VARIABLES resume

\* chunker the preparation of the detailed chunks and the resolution of
\*         search hits: the documents read from the collection, the chunk
\*         list built from them (or the error raised), the ids of the
\*         neighbours a search returned and the document ids parsed from
\*         them (SpecChunk)
VARIABLES chunker

\* jobs   the summarize and keyword jobs of one execution of the AI stage:
\*        the position of the main thread, the future of each of the two
\*        submissions, the state of each Vertex AI batch job and whether
\*        the results were parsed (SpecJobs)
VARIABLES jobs

\* deploy the index endpoints of the project and the executions of the
\*        deploy script: which index ids the environment sets, the
\*        endpoints with their deployed indexes, the clock, the arguments
\*        of the running execution and the indexes its threads have still
\*        to manage, the arguments of the execution before it and the
\*        endpoints that one left (SpecDeploy)
VARIABLES deploy

\* vector one execution of the vector-index orchestrator, or of the populate
\*        script by itself: the command line, the index ids of the
\*        environment, the manifests of steps 5 and 6, the steps still to
\*        run, the steps that completed, how each index was populated and
\*        the exit status (SpecVector)
VARIABLES vector

\* meta   the metadata of one item from the scraper to its final record:
\*        the details scraped from the summary page, the metadata file
\*        of the run directory (a dict, or absent) and the metadata
\*        fields of the final record the AI stage assembled (SpecMeta)
VARIABLES meta

\* kw     the keyword results of one execution of the AI stage: the texts
\*        parsed from the keyword job's output by id, the ids the cleaning
\*        loop has still to visit, the keyword values by id, whether an
\*        exception left the loop, and the final records (SpecKeywords)
VARIABLES kw

\* parse  one call of download_and_parse_results on the output of a batch
\*        job: the blobs under the output prefix with their lines, the
\*        number of blobs visited and the results mapping (SpecParse)
VARIABLES parse

\* populate  one run of 7_populate_indexes.py: the position of main, of
\*           the two population threads, and what was logged
\*           (SpecPopulate)
VARIABLES populate

\* The variables the intake state machine leaves alone.
auxVars == <<ai, store, resume, chunker, jobs, deploy, vector, meta, kw, parse, populate>>

vars == <<intakeVars, runVars, auxVars>>

\* Locals of the extraction stage.
s2Locals == <<idx, manifest, existing_rejected_ids, cleaned_text_path, cleaned_summary_path, ioErr>>
\* Locals of the AI stage.
s3Locals == <<all_tasks_for_ai, rewritten_texts, phase>>

Kinds == {"html", "summary"}

\* Return values of process_single_file and the manifest's path fields.
NonePath == <<>>
LowQuality == <<"low_quality">>
CleanedPath(id, kind) == <<"processed_trafilatura", id, IF kind = "html" THEN "txt" ELSE "summary.txt">>

\* run_manifest.json; exists = FALSE: no such file.
NoManifest == [exists |-> FALSE, processed_urls |-> <<>>, failed_urls |-> <<>>]

\* ---------------------------------------------------- Main.py: the runner
\* Values of runner: the scripts are started by hand; every script has
\* succeeded; the pipeline was halted (sys.exit(1)).  1..4 is the index of
\* the script run_script is to start or is waiting for.
Manual == 0
Finished == 5
Halted == 6
\* The exit status of a process that has not exited yet.
Running == -1
NoExit == [script |-> 0, code |-> 0, why |-> "none"]

\* The exit status of Main.py: sys.exit(1) when halted, 0 at the end of main.
RunnerExit == IF runner = Halted THEN 1 ELSE IF runner = Finished THEN 0 ELSE Running

\* Script k can be started: by hand, or by run_script when it is its turn.
CanStart(k) == stage = 0 /\ runs < MaxRuns /\ runner \in {Manual, k}

\* Variant of the loop of main that goes on to the next script whatever
\* run_script returned.
AfterExitNoHalt(k, code) == IF runner = Manual THEN Manual ELSE IF k = 4 THEN Finished ELSE k + 1
\* The loop of main after run_script(k) returned: success is True when the
\* exit status is 0 (subprocess.run(check=True)), otherwise sys.exit(1).
AfterExit(k, code) == IF runner = Manual THEN Manual ELSE IF code # 0 THEN Halted ELSE IF k = 4 THEN Finished ELSE k + 1

\* Script k is started and its process goes on running.
Begin(k) ==
    /\ exit_status' = [script |-> k, code |-> Running, why |-> "running"]
    /\ log' = IF runner = Manual THEN log ELSE Append(log, [script |-> k, code |-> Running, why |-> "running"])
    /\ UNCHANGED runner

\* The running process of script k exits.
ExitWith(k, code, why) ==
    /\ exit_status' = [script |-> k, code |-> code, why |-> why]
    /\ log' = IF runner = Manual THEN log ELSE [log EXCEPT ![Len(log)] = [script |-> k, code |-> code, why |-> why]]
    /\ runner' = AfterExit(k, code)

\* Script k is started and runs to its exit.
RunWhole(k, code, why) ==
    /\ exit_status' = [script |-> k, code |-> code, why |-> why]
    /\ log' = IF runner = Manual THEN log ELSE Append(log, [script |-> k, code |-> code, why |-> why])
    /\ runner' = AfterExit(k, code)

\* ------------------------------------------------------- stage 1: scraper
NoS1 == [ran |-> FALSE, rejected_ids |-> {}, requested |-> {}, written |-> {}, logFrom |-> 1, map |-> <<>>]

\* What the site answers for one write-up during one scraper run: whether
\* scrape_summary_page returns details, whether they hold an "Original
\* writeup" link and embedded content, and whether fetch_original_content
\* returns a non-empty body.
NoDetails == [found |-> FALSE, orig |-> FALSE, emb |-> FALSE, fetched |-> FALSE]
Responses == {NoDetails} \cup {r \in [found : {TRUE}, orig : BOOLEAN, emb : BOOLEAN, fetched : BOOLEAN] : (r.orig \/ r.emb) /\ (r.fetched => r.orig)}

\* The rows of the listing, in page order.
Listing == [i \in 1..MaxId |-> i]

TaskInfo(i, r) == [ctftime_id |-> i, original_url |-> IF r.orig THEN ExtUrl(i) ELSE NoUrl]
\* primary_source_url = details.get("original_url") or summary_url
GroupKey(i, r) == StripFragment(IF r.orig THEN ExtUrl(i) ELSE SummaryUrl(i))

\* url_to_tasks_map[key]["tasks"].append(task_info), keys in insertion order.
AddTask(map, key, task) == IF \E k \in 1..Len(map) : map[k].url = key THEN [k \in 1..Len(map) |-> IF map[k].url = key THEN [map[k] EXCEPT !.tasks = Append(@, task)] ELSE map[k]] ELSE Append(map, [url |-> key, tasks |-> <<task>>])

RECURSIVE GatherTasksNoSkip(_, _, _, _)
\* Variant of the row loop that never consults the skip list.
GatherTasksNoSkip(k, skip_ids, resp, map) == IF k > Len(Listing) THEN map ELSE LET i == Listing[k] IN IF ~resp[i].found THEN GatherTasksNoSkip(k + 1, skip_ids, resp, map) ELSE GatherTasksNoSkip(k + 1, skip_ids, resp, AddTask(map, GroupKey(i, resp[i]), TaskInfo(i, resp[i])))
RECURSIVE GatherTasks(_, _, _, _)
\* The row loop of main: rows k.. of the listing, skip list, site answers.
GatherTasks(k, skip_ids, resp, map) == IF k > Len(Listing) THEN map ELSE LET i == Listing[k] IN IF i \in skip_ids \/ ~resp[i].found THEN GatherTasks(k + 1, skip_ids, resp, map) ELSE GatherTasks(k + 1, skip_ids, resp, AddTask(map, GroupKey(i, resp[i]), TaskInfo(i, resp[i])))

\* Groups logged for manual review / kept for the manifest.
IsMulti(g) == Len(g.tasks) > 1
ManualReview(map) == SelectSeq(map, IsMulti)
IsForwarded(g) == ~IsMulti(g)
ManifestUrls(map) == SelectSeq(map, IsForwarded)

\* The fetch/save loop for one forwarded URL.
ExtSaved(g, resp) == g.tasks[1].original_url # NoUrl /\ resp[g.tasks[1].ctftime_id].fetched
EmbSaved(g, resp) == resp[g.tasks[1].ctftime_id].emb
\* Variant that counts only the external page as content.
HasContentExternalOnly(g, resp) == ExtSaved(g, resp)
HasContent(g, resp) == ExtSaved(g, resp) \/ EmbSaved(g, resp)

Entry(g, st) == [url |-> g.url, status |-> st, tasks |-> g.tasks, cleaned_text_path |-> NonePath, cleaned_summary_path |-> NonePath]

RECURSIVE BuildEntries(_, _, _, _)
\* The entries of processed_urls (want = TRUE) or failed_urls (want = FALSE).
BuildEntries(k, murls, resp, want) == IF k > Len(murls) THEN <<>> ELSE (IF HasContent(murls[k], resp) = want THEN <<Entry(murls[k], IF want THEN "scraped" ELSE "failed_scrape")>> ELSE <<>>) \o BuildEntries(k + 1, murls, resp, want)

\* The raw files the fetch/save loop writes: <<id, kind>>.
Written(murls, resp) == {<<murls[k].tasks[1].ctftime_id, "html">> : k \in {j \in 1..Len(murls) : ExtSaved(murls[j], resp)}} \cup {<<murls[k].tasks[1].ctftime_id, "summary">> : k \in {j \in 1..Len(murls) : EmbSaved(murls[j], resp)}}

\* Write-ups whose pages the run requested.
Requested(skip_ids) == {Listing[k] : k \in {j \in 1..Len(Listing) : Listing[j] \notin skip_ids}}

Scraper(resp, dbUp) ==
    LET db_ids == IF dbUp THEN db ELSE {}
        rejected_ids == GetRejectedIds(ledger)
        skip_ids == db_ids \cup rejected_ids
        map == GatherTasks(1, skip_ids, resp, <<>>)
        murls == ManifestUrls(map)
        written == Written(murls, resp)
    IN  /\ CanStart(1)
        /\ RunWhole(1, 0, "ok")
        /\ runs' = runs + 1
        /\ reviewLog' = reviewLog \o ManualReview(map)
        /\ rawFiles' = [i \in Ids |-> [k \in Kinds |-> rawFiles[i][k] \/ <<i, k>> \in written]]
        /\ extractLen' = [i \in Ids |-> [k \in Kinds |-> IF <<i, k>> \in written THEN Unknown ELSE extractLen[i][k]]]
        /\ manifestDisk' = [exists |-> TRUE, processed_urls |-> BuildEntries(1, murls, resp, TRUE), failed_urls |-> BuildEntries(1, murls, resp, FALSE)]
        /\ s1' = [ran |-> TRUE, rejected_ids |-> rejected_ids, requested |-> Requested(skip_ids), written |-> written, logFrom |-> Len(reviewLog) + 1, map |-> map]
        /\ UNCHANGED <<ledger, cleanedFiles, aiFiles, db, stage>>
        /\ UNCHANGED s2Locals
        /\ UNCHANGED s3Locals
        /\ UNCHANGED auxVars

\* get_existing_ids_from_db returns set() when MongoDB cannot be reached.
Stage1 == \E resp \in [Ids -> Responses] : \E dbUp \in (IF db = {} THEN {TRUE} ELSE BOOLEAN) : Scraper(resp, dbUp)

\* ---------------------------------------------------- stage 2: extraction
\* Where the try block of process_single_file raises: nowhere, while the
\* raw file is read and extracted (lines 27-35), or while the cleaned text
\* is written (lines 46-47).
ErrKinds == {"none", "read", "write"}
\* Variant of the quality gate that also rejects a text of exactly the
\* minimum length.
ProcessSingleFileLe(id, kind, exists, err, len) == IF ~exists THEN NonePath ELSE IF err = "read" THEN NonePath ELSE IF len <= MIN_CONTENT_LENGTH THEN LowQuality ELSE IF err = "write" THEN NonePath ELSE CleanedPath(id, kind)
\* process_single_file: exists = os.path.exists(input_html_path); len = the
\* length of the extracted text.
ProcessSingleFile(id, kind, exists, err, len) == IF ~exists THEN NonePath ELSE IF err = "read" THEN NonePath ELSE IF len < MIN_CONTENT_LENGTH THEN LowQuality ELSE IF err = "write" THEN NonePath ELSE CleanedPath(id, kind)

\* The condition of the rejection branch (lines 132-133).
AllLowQuality(t, s) == (t = LowQuality /\ s \in {NonePath, LowQuality}) \/ (s = LowQuality /\ t \in {NonePath, LowQuality})
\* cleaned_text_path and cleaned_text_path != "low_quality"
IsPath(p) == p # NonePath /\ p # LowQuality
\* The condition of the success branch (lines 150-151).
AnyCleaned(t, s) == IsPath(t) \/ IsPath(s)

\* Variant of the update that needs the primary source for "cleaned".
UpdateEntryPrimaryOnly(data, t, s) == IF AllLowQuality(t, s) THEN [data EXCEPT !.status = "rejected_low_quality"] ELSE IF IsPath(t) THEN [data EXCEPT !.status = "cleaned", !.cleaned_text_path = t, !.cleaned_summary_path = IF IsPath(s) THEN s ELSE @] ELSE [data EXCEPT !.status = "failed_cleaning"]
\* The manifest entry after the quality check.
UpdateEntry(data, t, s) == IF AllLowQuality(t, s) THEN [data EXCEPT !.status = "rejected_low_quality"] ELSE IF AnyCleaned(t, s) THEN [data EXCEPT !.status = "cleaned", !.cleaned_text_path = IF IsPath(t) THEN t ELSE @, !.cleaned_summary_path = IF IsPath(s) THEN s ELSE @] ELSE [data EXCEPT !.status = "failed_cleaning"]

\* Variant of the loop's filter that ignores the status.
EligibleAnyStatus(data) == data.tasks # <<>>
\* The loop body reaches the extraction for this entry (lines 111-117).
Eligible(data) == data.status = "scraped" /\ data.tasks # <<>>

ResetS2Locals ==
    /\ idx' = 0
    /\ manifest' = NoManifest
    /\ existing_rejected_ids' = {}
    /\ cleaned_text_path' = NonePath
    /\ cleaned_summary_path' = NonePath
    /\ ioErr' = [k \in Kinds |-> "none"]

\* The manifest cannot be loaded, or processed_urls is empty: return.
S2Nothing ==
    /\ CanStart(2)
    /\ ~manifestDisk.exists \/ manifestDisk.processed_urls = <<>>
    /\ RunWhole(2, 0, IF manifestDisk.exists THEN "nothing" ELSE "no_manifest")
    /\ runs' = runs + 1
    /\ s1' = NoS1
    /\ UNCHANGED <<ledger, rawFiles, extractLen, cleanedFiles, manifestDisk, reviewLog, aiFiles, db, stage>>
    /\ UNCHANGED s2Locals
    /\ UNCHANGED s3Locals
    /\ UNCHANGED auxVars

\* Lines 85-108: the manifest and the rejected ids are loaded.
S2Start ==
    /\ CanStart(2)
    /\ Begin(2)
    /\ manifestDisk.exists
    /\ manifestDisk.processed_urls # <<>>
    /\ runs' = runs + 1
    /\ s1' = NoS1
    /\ stage' = 2
    /\ idx' = 1
    /\ manifest' = manifestDisk
    /\ existing_rejected_ids' = GetExistingRejectedIds(ledger)
    /\ UNCHANGED <<ledger, rawFiles, extractLen, cleanedFiles, manifestDisk, reviewLog, aiFiles, db>>
    /\ UNCHANGED <<cleaned_text_path, cleaned_summary_path, ioErr>>
    /\ UNCHANGED s3Locals
    /\ UNCHANGED auxVars

\* An entry the loop skips (lines 111-117).
S2Skip ==
    /\ stage = 2
    /\ idx <= Len(manifest.processed_urls)
    /\ ~Eligible(manifest.processed_urls[idx])
    /\ idx' = idx + 1
    /\ UNCHANGED <<ledger, rawFiles, extractLen, cleanedFiles, manifestDisk, reviewLog, aiFiles, db, stage, runs, s1>>
    /\ UNCHANGED <<manifest, existing_rejected_ids, cleaned_text_path, cleaned_summary_path, ioErr>>
    /\ UNCHANGED s3Locals
    /\ UNCHANGED runVars
    /\ UNCHANGED auxVars

\* The lengths the two extractions can give: the one already learnt for the
\* file's content, any when the file is extracted for the first time.
LenChoices(id, kind, err) == IF rawFiles[id][kind] /\ err # "read" THEN (IF extractLen[id][kind] = Unknown THEN Lens ELSE {extractLen[id][kind]}) ELSE {Unknown}

\* One iteration of the loop over processed_urls (lines 119-164).
ExtractUrl(err, len) ==
    LET data == manifest.processed_urls[idx]
        ctftime_id == data.tasks[1].ctftime_id
        t == ProcessSingleFile(ctftime_id, "html", rawFiles[ctftime_id]["html"], err["html"], len["html"])
        s == ProcessSingleFile(ctftime_id, "summary", rawFiles[ctftime_id]["summary"], err["summary"], len["summary"])
    IN  /\ cleaned_text_path' = t
        /\ cleaned_summary_path' = s
        /\ ioErr' = err
        /\ extractLen' = [extractLen EXCEPT ![ctftime_id] = [k \in Kinds |-> IF len[k] = Unknown THEN @[k] ELSE len[k]]]
        /\ cleanedFiles' = cleanedFiles \cup ({t, s} \ {NonePath, LowQuality})
        /\ manifest' = [manifest EXCEPT !.processed_urls[idx] = UpdateEntry(data, t, s)]
        /\ IF AllLowQuality(t, s) /\ ctftime_id \notin existing_rejected_ids
           THEN /\ ledger' = LedgerAppend(ledger, ctftime_id)
                /\ existing_rejected_ids' = existing_rejected_ids \cup {ctftime_id}
           ELSE UNCHANGED <<ledger, existing_rejected_ids>>
        /\ idx' = idx + 1

S2Url ==
    /\ stage = 2
    /\ idx <= Len(manifest.processed_urls)
    /\ Eligible(manifest.processed_urls[idx])
    /\ LET id == manifest.processed_urls[idx].tasks[1].ctftime_id
       IN  \E err \in [Kinds -> ErrKinds] :
               /\ \A k \in Kinds : err[k] # "none" => rawFiles[id][k]
               /\ \E len \in [Kinds -> Lens \cup {Unknown}] :
                      /\ \A k \in Kinds : len[k] \in LenChoices(id, k, err[k])
                      /\ \A k \in Kinds : err[k] = "write" => len[k] >= MIN_CONTENT_LENGTH
                      /\ ExtractUrl(err, len)
    /\ UNCHANGED <<rawFiles, manifestDisk, reviewLog, aiFiles, db, stage, runs, s1>>
    /\ UNCHANGED s3Locals
    /\ UNCHANGED runVars
    /\ UNCHANGED auxVars

\* Lines 167-173: the updated manifest is written back.
S2Save ==
    /\ stage = 2
    /\ idx > Len(manifest.processed_urls)
    /\ manifestDisk' = manifest
    /\ stage' = 0
    /\ ResetS2Locals
    /\ ExitWith(2, 0, "ok")
    /\ UNCHANGED <<ledger, rawFiles, extractLen, cleanedFiles, reviewLog, aiFiles, db, runs, s1>>
    /\ UNCHANGED s3Locals
    /\ UNCHANGED auxVars

\* The extraction process is killed before it wrote the manifest; the
\* exit status of a killed process is not 0.
S2Interrupt ==
    /\ stage = 2
    /\ stage' = 0
    /\ ResetS2Locals
    /\ ExitWith(2, 1, "killed")
    /\ UNCHANGED <<ledger, rawFiles, extractLen, cleanedFiles, manifestDisk, reviewLog, aiFiles, db, runs, s1>>
    /\ UNCHANGED s3Locals
    /\ UNCHANGED auxVars

\* ------------------------------------------------ stage 3: AI processing
RECURSIVE PrepareTasks(_, _)
\* Lines 294-344: one request per task of every URL whose status is
\* "cleaned"; text_content is the cleaned summary, then the cleaned primary
\* text, whichever the entry names and the run directory holds.
PrepareTasks(k, urls) == IF k > Len(urls) THEN <<>> ELSE LET data == urls[k] text_parts == (IF data.cleaned_summary_path # NonePath /\ data.cleaned_summary_path \in cleanedFiles THEN <<data.cleaned_summary_path>> ELSE <<>>) \o (IF data.cleaned_text_path # NonePath /\ data.cleaned_text_path \in cleanedFiles THEN <<data.cleaned_text_path>> ELSE <<>>) IN (IF data.status # "cleaned" \/ text_parts = <<>> THEN <<>> ELSE [j \in 1..Len(data.tasks) |-> [ctftime_id |-> data.tasks[j].ctftime_id, text_content |-> text_parts]]) \o PrepareTasks(k + 1, urls)

TaskIds(tasks) == {tasks[k].ctftime_id : k \in 1..Len(tasks)}

ResetS3Locals ==
    /\ all_tasks_for_ai' = <<>>
    /\ rewritten_texts' = {}
    /\ phase' = "none"

\* Lines 260-281: the manifest was loaded and the Google Cloud services
\* cannot be initialised: sys.exit(1).
S3InitFail ==
    /\ CanStart(3)
    /\ manifestDisk.exists
    /\ RunWhole(3, 1, "gcp_init")
    /\ runs' = runs + 1
    /\ s1' = NoS1
    /\ UNCHANGED <<ledger, rawFiles, extractLen, cleanedFiles, manifestDisk, reviewLog, aiFiles, db, stage>>
    /\ UNCHANGED s2Locals
    /\ UNCHANGED s3Locals
    /\ UNCHANGED auxVars

\* The manifest cannot be loaded, or no URL is "cleaned": return.
S3Nothing ==
    /\ CanStart(3)
    /\ ~manifestDisk.exists \/ PrepareTasks(1, manifestDisk.processed_urls) = <<>>
    /\ RunWhole(3, 0, IF manifestDisk.exists THEN "nothing" ELSE "no_manifest")
    /\ runs' = runs + 1
    /\ s1' = NoS1
    /\ UNCHANGED <<ledger, rawFiles, extractLen, cleanedFiles, manifestDisk, reviewLog, aiFiles, db, stage>>
    /\ UNCHANGED s2Locals
    /\ UNCHANGED s3Locals
    /\ UNCHANGED auxVars

\* Lines 249-369: the requests are built and the rewrite job is submitted.
S3Prepare ==
    /\ CanStart(3)
    /\ Begin(3)
    /\ manifestDisk.exists
    /\ PrepareTasks(1, manifestDisk.processed_urls) # <<>>
    /\ runs' = runs + 1
    /\ s1' = NoS1
    /\ stage' = 3
    /\ phase' = "rewrite"
    /\ all_tasks_for_ai' = PrepareTasks(1, manifestDisk.processed_urls)
    /\ rewritten_texts' = {}
    /\ UNCHANGED <<ledger, rawFiles, extractLen, cleanedFiles, manifestDisk, reviewLog, aiFiles, db>>
    /\ UNCHANGED s2Locals
    /\ UNCHANGED auxVars

\* Lines 363-381: the rewrite job ends; ok = JOB_STATE_SUCCEEDED, got = the
\* ids of the result records download_and_parse_results keeps (the service
\* echoes the ids of the requests).  A failed job raises RuntimeError out
\* of main; an empty result mapping makes main return.
RewriteDone(ok, got) ==
    /\ stage = 3
    /\ phase = "rewrite"
    /\ IF ok /\ got # {}
       THEN /\ rewritten_texts' = got
            /\ phase' = "summarize_keywords"
            /\ UNCHANGED <<stage, all_tasks_for_ai>>
            /\ UNCHANGED runVars
       ELSE /\ stage' = 0
            /\ ResetS3Locals
            /\ IF ok THEN ExitWith(3, 0, "no_rewrite_results") ELSE ExitWith(3, 1, "rewrite_failed")
    /\ UNCHANGED <<ledger, rawFiles, extractLen, cleanedFiles, manifestDisk, reviewLog, aiFiles, db, runs, s1>>
    /\ UNCHANGED s2Locals
    /\ UNCHANGED auxVars

S3Rewrite == \E ok \in BOOLEAN : \E got \in SUBSET TaskIds(all_tasks_for_ai) : RewriteDone(ok, got)

\* Variant of the end of the stage that writes the final records whatever
\* became of the summarize and keyword jobs.
AssembleDoneDespite(okS, okK, summaries, keywords) ==
    /\ stage = 3
    /\ phase = "summarize_keywords"
    /\ ExitWith(3, 0, IF ~okS THEN "summarize_failed" ELSE IF ~okK THEN "keywords_failed" ELSE "ok")
    /\ aiFiles' = aiFiles \cup (rewritten_texts \cup summaries \cup keywords)
    /\ stage' = 0
    /\ ResetS3Locals
    /\ UNCHANGED <<ledger, rawFiles, extractLen, cleanedFiles, manifestDisk, reviewLog, db, runs, s1>>
    /\ UNCHANGED s2Locals
    /\ UNCHANGED auxVars

\* Lines 389-551: the summarize and keyword jobs end and the final records
\* are written for the union of the three result mappings.  The
\* RuntimeError of a failed job is caught at line 493 and main returns.
AssembleDone(okS, okK, summaries, keywords) ==
    /\ stage = 3
    /\ phase = "summarize_keywords"
    /\ ExitWith(3, 0, IF ~okS THEN "summarize_failed" ELSE IF ~okK THEN "keywords_failed" ELSE "ok")
    /\ aiFiles' = IF okS /\ okK THEN aiFiles \cup (rewritten_texts \cup summaries \cup keywords) ELSE aiFiles
    /\ stage' = 0
    /\ ResetS3Locals
    /\ UNCHANGED <<ledger, rawFiles, extractLen, cleanedFiles, manifestDisk, reviewLog, db, runs, s1>>
    /\ UNCHANGED s2Locals
    /\ UNCHANGED auxVars

S3Assemble == \E okS \in BOOLEAN : \E okK \in BOOLEAN : \E summaries \in SUBSET (rewritten_texts \cap TaskIds(all_tasks_for_ai)) : \E keywords \in SUBSET (rewritten_texts \cap TaskIds(all_tasks_for_ai)) : AssembleDone(okS, okK, summaries, keywords)

\* ------------------------------------------------------- stage 4: storage
\* Variant of the storage stage that marks the stored URLs in the manifest.
StoreInDbMarking(dbUp) ==
    /\ CanStart(4)
    /\ RunWhole(4, 0, IF dbUp THEN "ok" ELSE "no_db")
    /\ runs' = runs + 1
    /\ s1' = NoS1
    /\ db' = IF dbUp THEN db \cup aiFiles ELSE db
    /\ manifestDisk' = [manifestDisk EXCEPT !.processed_urls = [k \in DOMAIN @ |-> [@[k] EXCEPT !.status = IF @ = "cleaned" /\ dbUp THEN "stored" ELSE @]]]
    /\ UNCHANGED <<ledger, rawFiles, extractLen, cleanedFiles, reviewLog, aiFiles, stage>>
    /\ UNCHANGED s2Locals
    /\ UNCHANGED s3Locals
    /\ UNCHANGED auxVars

\* store_data_in_mongodb: every final record is upserted by its ctftime_id;
\* nothing is stored when MongoDB cannot be reached.
StoreInDb(dbUp) ==
    /\ CanStart(4)
    /\ RunWhole(4, 0, IF dbUp THEN "ok" ELSE "no_db")
    /\ runs' = runs + 1
    /\ s1' = NoS1
    /\ db' = IF dbUp THEN db \cup aiFiles ELSE db
    /\ UNCHANGED <<ledger, rawFiles, extractLen, cleanedFiles, manifestDisk, reviewLog, aiFiles, stage>>
    /\ UNCHANGED s2Locals
    /\ UNCHANGED s3Locals
    /\ UNCHANGED auxVars

Stage4 == \E dbUp \in BOOLEAN : StoreInDb(dbUp)

\* --------------------------------- stage 3 with the texts: the data path
\* A text is a sequence of tokens; the three placeholders of the prompt
\* templates are tokens of their own.
RECURSIVE Replace(_, _, _)
\* str.replace(old, new): every occurrence replaced, the result not rescanned.
Replace(s, old, new) == IF s = <<>> THEN <<>> ELSE (IF Head(s) = old THEN new ELSE <<Head(s)>>) \o Replace(Tail(s), old, new)

RECURSIVE Split(_, _)
\* str.split(sep): the list of the parts around every occurrence of sep.
Split(s, sep) == IF \A k \in 1..Len(s) : s[k] # sep THEN <<s>> ELSE LET i == CHOOSE k \in 1..Len(s) : s[k] = sep /\ \A j \in 1..(k - 1) : s[j] # sep IN <<SubSeq(s, 1, i - 1)>> \o Split(SubSeq(s, i + 1, Len(s)), sep)

\* The three prompt templates: instructions naming the task and the event,
\* the marker of the write-up, and the closing line.
get_rewrite_prompt == <<"rewrite", "$task_name", "$event_name", "$writeup", "Rewritten Text:">>
get_summarize_prompt == <<"summarize", "$task_name", "$event_name", "$writeup", "RAG Summary:">>
get_keyword_prompt == <<"keywords", "$task_name", "$event_name", "$writeup", "Keywords:">>

\* final_prompt of prepare_and_upload_input (line 163).
FinalPrompt(prompt_template, event_name, task_name) == Replace(Replace(prompt_template, "$event_name", event_name), "$task_name", task_name)

\* The instance prepare_and_upload_input builds for one task (lines
\* 157-191): the three text parts of the request and the id passed through.
BuildInstance(task_data, prompt_template) == LET template_parts == Split(FinalPrompt(prompt_template, task_data.event_name, task_data.task_name), "$writeup") IN [ctftime_id |-> task_data.ctftime_id, parts |-> <<template_parts[1], task_data.text_content, IF Len(template_parts) > 1 THEN template_parts[2] ELSE <<>>>>]

\* The lines of the uploaded batch input.
PrepareAndUploadInput(input_data, prompt_template) == [k \in 1..Len(input_data) |-> BuildInstance(input_data[k], prompt_template)]

\* A line of a predictions file: the id echoed (NoId: none), and the shape
\* of the record: unparsable, without candidates, a candidate without
\* parts, or a candidate whose first part holds the text.
NoId == 0
ResultIds == 1..MaxResultId
Prediction == <<"t">>
ResultLines == [ctftime_id : ResultIds \cup {NoId}, shape : {"bad_json", "no_candidates", "no_parts", "text"}, text : {Prediction}]

\* results[key] = val of a dict; the empty dict is <<>>.
Put(results, key, val) == [i \in (DOMAIN results) \cup {key} |-> IF i = key THEN val ELSE results[i]]

RECURSIVE ParseLinesSkipping(_, _, _)
\* Variant that skips a record without candidates or parts.
ParseLinesSkipping(lines, k, results) == IF k > Len(lines) THEN results ELSE LET line == lines[k] IN IF line.shape = "bad_json" \/ line.ctftime_id = NoId \/ line.shape \in {"no_candidates", "no_parts"} THEN ParseLinesSkipping(lines, k + 1, results) ELSE ParseLinesSkipping(lines, k + 1, Put(results, line.ctftime_id, line.text))
RECURSIVE ParseLinesStopping(_, _, _)
\* Variant that gives up the rest of a file at a line that is not JSON.
ParseLinesStopping(lines, k, results) == IF k > Len(lines) THEN results ELSE LET line == lines[k] IN IF line.shape = "bad_json" THEN results ELSE IF line.ctftime_id = NoId THEN ParseLinesStopping(lines, k + 1, results) ELSE IF line.shape \in {"no_candidates", "no_parts"} THEN ParseLinesStopping(lines, k + 1, Put(results, line.ctftime_id, <<>>)) ELSE ParseLinesStopping(lines, k + 1, Put(results, line.ctftime_id, line.text))
RECURSIVE ParseLines(_, _, _)
\* The loop of download_and_parse_results over the lines (lines 97-138).
ParseLines(lines, k, results) == IF k > Len(lines) THEN results ELSE LET line == lines[k] IN IF line.shape = "bad_json" \/ line.ctftime_id = NoId THEN ParseLines(lines, k + 1, results) ELSE IF line.shape \in {"no_candidates", "no_parts"} THEN ParseLines(lines, k + 1, Put(results, line.ctftime_id, <<>>)) ELSE ParseLines(lines, k + 1, Put(results, line.ctftime_id, line.text))

DownloadAndParseResults(lines) == ParseLines(lines, 1, <<>>)

\* id_to_task_meta.get(id): the last task of all_tasks_for_ai with the id.
TaskMeta(all_tasks, id) == all_tasks[CHOOSE k \in 1..Len(all_tasks) : all_tasks[k].ctftime_id = id /\ \A j \in (k + 1)..Len(all_tasks) : all_tasks[j].ctftime_id # id]

RECURSIVE EnrichInputTasksOriginal(_, _, _)
\* Variant that passes on the text of the original task.
EnrichInputTasksOriginal(rewritten, all_tasks, i) == IF i > MaxResultId THEN <<>> ELSE (IF i \in DOMAIN rewritten /\ i \in TaskIds(all_tasks) THEN <<TaskMeta(all_tasks, i)>> ELSE <<>>) \o EnrichInputTasksOriginal(rewritten, all_tasks, i + 1)
RECURSIVE EnrichInputTasks(_, _, _)
\* summary_input_tasks / keyword_input_tasks (lines 389-418), for the ids
\* i.. of rewritten_texts.
EnrichInputTasks(rewritten, all_tasks, i) == IF i > MaxResultId THEN <<>> ELSE (IF i \in DOMAIN rewritten /\ i \in TaskIds(all_tasks) THEN <<[TaskMeta(all_tasks, i) EXCEPT !.text_content = rewritten[i]]>> ELSE <<>>) \o EnrichInputTasks(rewritten, all_tasks, i + 1)

\* Lines 479-491: the text of a keyword result parsed as JSON: the text
\* of a result is a JSON array and parses to the list of its tokens; "" is
\* not JSON and gives the empty list.
CleanKeywords(keywords_raw) == [i \in DOMAIN keywords_raw |-> IF keywords_raw[i] = <<>> THEN <<>> ELSE keywords_raw[i]]

\* dict.get(key, default)
Get(map, key, default) == IF key \in DOMAIN map THEN map[key] ELSE default
\* ctftime_id_to_original_text (line 344).
OriginalTexts(all_tasks) == [i \in TaskIds(all_tasks) |-> TaskMeta(all_tasks, i).text_content]

\* Variant of the assembly that writes records for the rewritten ids only.
AssembleRewrittenOnly(rewritten, summaries, keywords, all_tasks) == [i \in DOMAIN rewritten |-> [ctftime_id |-> i, ai_tags |-> Get(keywords, i, <<>>), rag_summary |-> Get(summaries, i, <<>>), rewritten_full_text |-> Get(rewritten, i, <<>>), full_text |-> Get(OriginalTexts(all_tasks), i, <<>>)]]
\* The final records of lines 505-549, by id.
Assemble(rewritten, summaries, keywords, all_tasks) == [i \in (DOMAIN rewritten) \cup (DOMAIN summaries) \cup (DOMAIN keywords) |-> [ctftime_id |-> i, ai_tags |-> Get(keywords, i, <<>>), rag_summary |-> Get(summaries, i, <<>>), rewritten_full_text |-> Get(rewritten, i, <<>>), full_text |-> Get(OriginalTexts(all_tasks), i, <<>>)]]

\* The texts and names the tasks are drawn from, and the task lists.
Texts == {<<"w">>, <<"w", "$writeup", "$event_name", "$task_name">>}
Names == {<<"n">>, <<"$writeup">>}
TaskInputs == {<<t>> : t \in [ctftime_id : {1}, event_name : Names, task_name : Names, text_content : Texts]} \cup {<<[ctftime_id |-> 1, event_name |-> <<"n">>, task_name |-> <<"n">>, text_content |-> <<"w">>], [ctftime_id |-> 2, event_name |-> <<"n">>, task_name |-> <<"n">>, text_content |-> <<"w", "w">>]>>}
\* The result lines a predictions file can hold.
ResultLineSeqs == {<<>>} \cup {<<l>> : l \in ResultLines} \cup {<<l1, l2>> : l1 \in ResultLines, l2 \in ResultLines}

NoRequests == [rewrite |-> <<>>, summarize |-> <<>>, keywords |-> <<>>]
\* The AI stage is not running.
NoAi == [pc |-> "idle", all_tasks_for_ai |-> <<>>, requests |-> NoRequests, lines |-> <<>>, rewritten_texts |-> <<>>, summaries |-> <<>>, keywords |-> <<>>, final |-> <<>>]

\* Lines 352-381: the rewrite requests are built, the job has succeeded
\* and its results are parsed; without results main returns.
AIRewrite ==
    /\ ai.pc = "rewrite"
    /\ \E lines \in ResultLineSeqs :
           LET rewritten_texts_ == DownloadAndParseResults(lines)
           IN  ai' = [ai EXCEPT !.requests.rewrite = PrepareAndUploadInput(ai.all_tasks_for_ai, get_rewrite_prompt), !.lines = lines, !.rewritten_texts = rewritten_texts_, !.pc = IF DOMAIN rewritten_texts_ = {} THEN "returned" ELSE "summarize"]
    /\ UNCHANGED <<intakeVars, runVars, store, resume, chunker, jobs, deploy, vector, meta, kw, parse, populate>>

\* Lines 389-470: the inputs of the two jobs are built from the rewritten
\* texts; the summarize job has succeeded and its results are parsed.
AISummarize ==
    /\ ai.pc = "summarize"
    /\ \E lines \in ResultLineSeqs :
           LET input_tasks == EnrichInputTasks(ai.rewritten_texts, ai.all_tasks_for_ai, 1)
           IN  ai' = [ai EXCEPT !.requests.summarize = PrepareAndUploadInput(input_tasks, get_summarize_prompt), !.requests.keywords = PrepareAndUploadInput(input_tasks, get_keyword_prompt), !.lines = <<>>, !.summaries = DownloadAndParseResults(lines), !.pc = "keywords"]
    /\ UNCHANGED <<intakeVars, runVars, store, resume, chunker, jobs, deploy, vector, meta, kw, parse, populate>>

\* Lines 471-491: the keyword job has succeeded, its results are parsed
\* and cleaned.
AIKeywords ==
    /\ ai.pc = "keywords"
    /\ \E lines \in ResultLineSeqs : ai' = [ai EXCEPT !.keywords = CleanKeywords(DownloadAndParseResults(lines)), !.pc = "assemble"]
    /\ UNCHANGED <<intakeVars, runVars, store, resume, chunker, jobs, deploy, vector, meta, kw, parse, populate>>

\* Lines 501-551: the final records are written.
AIAssemble ==
    /\ ai.pc = "assemble"
    /\ ai' = [ai EXCEPT !.final = Assemble(ai.rewritten_texts, ai.summaries, ai.keywords, ai.all_tasks_for_ai), !.pc = "done"]
    /\ UNCHANGED <<intakeVars, runVars, store, resume, chunker, jobs, deploy, vector, meta, kw, parse, populate>>

\* ------------------------------------ stage 4 with the documents: upsert
\* A JSON object is a function from its keys; a file of ai_processed holds
\* an object with or without ctftime_id, or text that is not JSON.
FinalRecord(i, c) == [ctftime_id |-> i, rag_summary |-> c]
NoFile == [kind |-> "absent", data |-> <<>>]
FileChoices(i) == {NoFile, [kind |-> "bad_json", data |-> <<>>], [kind |-> "json", data |-> [rag_summary |-> "a"]]} \cup {[kind |-> "json", data |-> FinalRecord(i, c)] : c \in {"a", "b"}}

\* The documents the filter {'ctftime_id': id} matches, by position.
Matches(collection, id) == {k \in 1..Len(collection) : "ctftime_id" \in DOMAIN collection[k] /\ collection[k].ctftime_id = id}
\* {'$set': data} applied to a document.
SetFields(doc, data) == [f \in (DOMAIN doc) \cup (DOMAIN data) |-> IF f \in DOMAIN data THEN data[f] ELSE doc[f]]

\* Variant that inserts the record as a new document.
InsertOne(collection, id, data) == Append(collection, data)
\* collection.update_one({'ctftime_id': id}, {'$set': data}, upsert=True):
\* the first matching document is updated; without a match a document made
\* of the filter and the data is inserted.
UpdateOne(collection, id, data) == IF Matches(collection, id) = {} THEN Append(collection, SetFields([ctftime_id |-> id], data)) ELSE LET first == CHOOSE k \in Matches(collection, id) : \A j \in Matches(collection, id) : k <= j IN [collection EXCEPT ![first] = SetFields(@, data)]

\* The *.json files of the input directory (line 55).
JsonFiles == {i \in Ids : store.files[i].kind # "absent"}

NoStore == [pc |-> "idle", files |-> [i \in Ids |-> NoFile], collection |-> <<>>, todo |-> {}, runs |-> 0, stored |-> 0, first |-> <<>>]

\* Lines 43-45: MongoDB cannot be reached, the stage returns.
StoreNoClient ==
    /\ store.pc = "idle"
    /\ store.runs < MaxStoreRuns
    /\ store' = [store EXCEPT !.runs = @ + 1]
    /\ UNCHANGED <<intakeVars, runVars, ai, resume, chunker, jobs, deploy, vector, meta, kw, parse, populate>>

\* Lines 53-58: connected, but the directory holds no JSON file.
StoreNoFiles ==
    /\ store.pc = "idle"
    /\ store.runs < MaxStoreRuns
    /\ JsonFiles = {}
    /\ store' = [store EXCEPT !.runs = @ + 1]
    /\ UNCHANGED <<intakeVars, runVars, ai, resume, chunker, jobs, deploy, vector, meta, kw, parse, populate>>

\* Lines 43-65: connected, the JSON files are listed.
StoreConnect ==
    /\ store.pc = "idle"
    /\ store.runs < MaxStoreRuns
    /\ JsonFiles # {}
    /\ store' = [store EXCEPT !.runs = @ + 1, !.pc = "loop", !.todo = JsonFiles]
    /\ UNCHANGED <<intakeVars, runVars, ai, resume, chunker, jobs, deploy, vector, meta, kw, parse, populate>>

\* Lines 67-98: one file of the listing, in the order os.listdir gives.
StoreFile ==
    /\ store.pc = "loop"
    /\ \E i \in store.todo :
           LET file == store.files[i]
           IN  store' = [store EXCEPT !.todo = @ \ {i}, !.collection = IF file.kind = "json" /\ "ctftime_id" \in DOMAIN file.data THEN UpdateOne(@, file.data.ctftime_id, file.data) ELSE @]
    /\ UNCHANGED <<intakeVars, runVars, ai, resume, chunker, jobs, deploy, vector, meta, kw, parse, populate>>

\* Lines 100-101: the loop is over.
StoreClose ==
    /\ store.pc = "loop"
    /\ store.todo = {}
    /\ store' = [store EXCEPT !.pc = "idle", !.stored = @ + 1, !.first = IF store.stored = 0 THEN store.collection ELSE @]
    /\ UNCHANGED <<intakeVars, runVars, ai, resume, chunker, jobs, deploy, vector, meta, kw, parse, populate>>

\* ------------------------------------- stage 2 from start to end, at once
NoResume == [manifest |-> NoManifest, ledger |-> EmptyFile]

\* An iteration of the loop of extract_and_clean in which reading and
\* writing succeed.
S2UrlNoError == S2Url /\ ioErr' = [k \in Kinds |-> "none"]

RECURSIVE RunAll(_, _, _, _)
\* The loop of extract_and_clean (lines 110-164) from entry k to the end,
\* on manifest m, log file l and the set of rejected ids loaded or added so
\* far, with the raw files of the run directory and no I/O error: the
\* manifest it saves and the log file it leaves.
RunAll(k, m, l, existing) == IF k > Len(m.processed_urls) THEN [manifest |-> m, ledger |-> l] ELSE LET data == m.processed_urls[k] IN IF ~Eligible(data) THEN RunAll(k + 1, m, l, existing) ELSE LET id == data.tasks[1].ctftime_id t == ProcessSingleFile(id, "html", rawFiles[id]["html"], "none", extractLen[id]["html"]) s == ProcessSingleFile(id, "summary", rawFiles[id]["summary"], "none", extractLen[id]["summary"]) rejected == AllLowQuality(t, s) /\ id \notin existing IN RunAll(k + 1, [m EXCEPT !.processed_urls[k] = UpdateEntry(data, t, s)], IF rejected THEN LedgerAppend(l, id) ELSE l, IF rejected THEN existing \cup {id} ELSE existing)

\* One execution of the extraction stage that nothing interrupts, on the
\* manifest and the log file of the start.
UninterruptedRun == RunAll(1, resume.manifest, resume.ledger, GetExistingRejectedIds(resume.ledger))

\* The statuses of the manifest, entry by entry.
Statuses(m) == [k \in 1..Len(m.processed_urls) |-> m.processed_urls[k].status]

\* ---------------------------------- vector index: chunks and their ids
\* A document of the collection as step 5 reads it: its ctftime_id and its
\* rewritten_full_text, a missing field or a text of so many tokens (the
\* empty string has none, every other string has at least one).
NoText == [present |-> FALSE, tokens |-> 0]
TextOf(n) == [present |-> TRUE, tokens |-> n]

Min(a, b) == IF a <= b THEN a ELSE b

\* Variant that moves the window by its full size.
StrideNoOverlap == CHUNK_SIZE
\* The step of the loop over the tokens (line 81).
Stride == CHUNK_SIZE - CHUNK_OVERLAP

RECURSIVE Range(_, _, _)
\* range(i, stop, step)
Range(i, stop, step) == IF i >= stop THEN <<>> ELSE <<i>> \o Range(i + step, stop, step)

\* Variant that cuts a chunk where the next one starts.
SliceToNext(i, n) == [from |-> i, to |-> Min(i + Stride, n)]
\* tokens[i:i + CHUNK_SIZE] of n tokens: the positions from .. to - 1.
Slice(i, n) == [from |-> i, to |-> Min(i + CHUNK_SIZE, n)]

\* Variant that numbers a chunk by its token offset.
ChunkIdOffset(doc_id, i) == doc_id \o <<"_", "chunk", "_">> \o Decimal(i)
\* Variant that puts a tag before the document id.
ChunkIdTagged(doc_id, i) == <<"doc", "_">> \o doc_id \o <<"_", "chunk", "_">> \o Decimal(i \div Stride)
\* f"{doc_id}_chunk_{i//(CHUNK_SIZE-CHUNK_OVERLAP)}" (line 86)
ChunkId(doc_id, i) == doc_id \o <<"_", "chunk", "_">> \o Decimal(i \div Stride)

\* Variant of the test of line 72 that lets every document through.
HasTextAlways(doc) == TRUE
\* doc.get("rewritten_full_text") is truthy (line 72).
HasText(doc) == doc.text.present /\ doc.text.tokens > 0

\* Lines 75-88 for one document: doc['rewritten_full_text'] raises KeyError
\* when the field is missing; otherwise one chunk per step of the loop.
ChunkDoc(doc) == IF ~doc.text.present THEN [raised |-> TRUE, chunks |-> <<>>] ELSE LET starts == Range(0, doc.text.tokens, Stride) IN [raised |-> FALSE, chunks |-> [k \in 1..Len(starts) |-> [id |-> ChunkId(Decimal(doc.ctftime_id), starts[k]), content |-> Slice(starts[k], doc.text.tokens)]]]

RECURSIVE PrepareDetailedChunkData(_, _, _)
\* prepare_detailed_chunk_data (lines 65-91) from document k on: the chunk
\* list, or the exception that ends the function.
PrepareDetailedChunkData(docs, k, chunk_list) == IF k > Len(docs) THEN [raised |-> FALSE, chunk_list |-> chunk_list] ELSE IF ~HasText(docs[k]) THEN PrepareDetailedChunkData(docs, k + 1, chunk_list) ELSE IF ChunkDoc(docs[k]).raised THEN [raised |-> TRUE, chunk_list |-> <<>>] ELSE PrepareDetailedChunkData(docs, k + 1, chunk_list \o ChunkDoc(docs[k]).chunks)

\* Variant that keeps the whole hit id.
BaseIdWhole(neighbor_id) == neighbor_id
\* neighbor_id.split('_')[0] (ask.py line 90)
BaseId(neighbor_id) == Split(neighbor_id, "_")[1]

\* parse_and_deduplicate_ids (ask.py lines 77-92)
ParseAndDeduplicateIds(neighbor_ids) == {BaseId(neighbor_ids[k]) : k \in 1..Len(neighbor_ids)}

\* The documents step 5 is run on: one document with any text up to
\* MaxTokens tokens or none, or two documents with short, long or no texts.
DocTexts == {NoText, TextOf(0), TextOf(1), TextOf(CHUNK_SIZE + 1)}
DocInputs == {<<[ctftime_id |-> 7, text |-> t]>> : t \in {NoText} \cup {TextOf(n) : n \in 0..MaxTokens}} \cup {<<[ctftime_id |-> 7, text |-> t1], [ctftime_id |-> 40338, text |-> t2]>> : t1 \in DocTexts, t2 \in DocTexts}

\* The ids a search can return: chunk ids of the detailed index and
\* document ids of the summary index.
HitIds == {<<"7", "_", "chunk", "_", "0">>, <<"7", "_", "chunk", "_", "1">>, <<"9", "_", "chunk", "_", "0">>, <<"9">>, <<"4", "0", "_", "chunk", "_", "1", "0">>}
HitSeqs == {<<>>} \cup {<<a>> : a \in HitIds} \cup {<<a, b>> : a \in HitIds, b \in HitIds} \cup {<<a, b, c>> : a \in HitIds, b \in HitIds, c \in HitIds}

NoChunker == [pc |-> "idle", docs |-> <<>>, raised |-> FALSE, chunk_list |-> <<>>, neighbor_ids |-> <<>>, doc_ids |-> {}, fetched |-> {}]

\* A value of a MongoDB field or query with its type: the integer n, the
\* string s. Values of different types are never equal in a query.
BsonInt(n) == [type |-> "int", int |-> n, str |-> <<>>]
BsonStr(s) == [type |-> "str", int |-> 0, str |-> s]
\* The ctftime_id a document is stored under: data['ctftime_id'] of the
\* final record (4_store_in_db.py lines 78-86), the integer of stage 1
\* (1_scrapper.py line 230) carried through the JSON files.
StoredId(doc) == BsonInt(doc.ctftime_id)
\* collection.find({"ctftime_id": {"$in": doc_ids}}) (ask.py line 113) with
\* the strings of parse_and_deduplicate_ids: the positions of the documents
\* found.
Find(docs, doc_ids) == {k \in 1..Len(docs) : \E id \in doc_ids : StoredId(docs[k]) = BsonStr(id)}

\* Step 5: prepare_detailed_chunk_data on the documents of the collection.
ChunkDocs ==
    /\ chunker.pc = "prepare"
    /\ LET r == PrepareDetailedChunkData(chunker.docs, 1, <<>>)
       IN  chunker' = [chunker EXCEPT !.pc = "prepared", !.raised = r.raised, !.chunk_list = r.chunk_list]
    /\ UNCHANGED <<intakeVars, runVars, ai, store, resume, jobs, deploy, vector, meta, kw, parse, populate>>

\* A search whose neighbours are all the chunks of the list.
FindNeighbors ==
    /\ chunker.pc = "prepared"
    /\ ~chunker.raised
    /\ chunker' = [chunker EXCEPT !.pc = "found", !.neighbor_ids = [k \in 1..Len(chunker.chunk_list) |-> chunker.chunk_list[k].id]]
    /\ UNCHANGED <<intakeVars, runVars, ai, store, resume, jobs, deploy, vector, meta, kw, parse, populate>>

\* ask.py: the document ids are parsed from the ids of the neighbours.
ResolveNeighbors ==
    /\ chunker.pc = "found"
    /\ chunker' = [chunker EXCEPT !.pc = "resolved", !.doc_ids = ParseAndDeduplicateIds(chunker.neighbor_ids)]
    /\ UNCHANGED <<intakeVars, runVars, ai, store, resume, jobs, deploy, vector, meta, kw, parse, populate>>

\* ask.py, fetch_documents_from_mongodb (lines 94-125): the documents of
\* the resolved ids are fetched from the collection.
FetchDocuments ==
    /\ chunker.pc = "resolved"
    /\ chunker' = [chunker EXCEPT !.pc = "fetched", !.fetched = IF chunker.doc_ids = {} THEN {} ELSE Find(chunker.docs, chunker.doc_ids)]
    /\ UNCHANGED <<intakeVars, runVars, ai, store, resume, jobs, deploy, vector, meta, kw, parse, populate>>

\* ----------------------------- stage 3: the summarize and keyword jobs
JobNames == {"summarize", "keywords"}

\* The states of a future: not submitted, waiting for a worker thread,
\* run by a worker thread, finished with a value or with an exception.
\* The states of a batch job: not created, then the JobState of Vertex AI.
NoJobs == [pc |-> "idle", future |-> [j \in JobNames |-> "none"], job |-> [j \in JobNames |-> "none"], parsed |-> FALSE]

\* The worker threads of the pool that are running a submission.
Busy == {j \in JobNames : jobs.future[j] = "running"}

\* Variant where result() never blocks.
ResultReadyAlways(j) == TRUE
\* future.result() returns or raises once the submission has finished
\* (lines 462-463).
ResultReady(j) == jobs.future[j] \in {"returned", "raised"}

\* The states batch_job.wait() ends in.
JobEnded(j) == jobs.job[j] \in {"succeeded", "failed", "cancelled"}

\* Lines 423-439: the summarize requests are uploaded and
\* execute_batch_job is submitted to the pool.
SubmitSummarize ==
    /\ jobs.pc = "summarize"
    /\ jobs' = [jobs EXCEPT !.pc = "keywords", !.future["summarize"] = "pending"]
    /\ UNCHANGED <<intakeVars, runVars, ai, store, resume, chunker, deploy, vector, meta, kw, parse, populate>>

\* Lines 442-458: the same for the keyword job.
SubmitKeywords ==
    /\ jobs.pc = "keywords"
    /\ jobs' = [jobs EXCEPT !.pc = "wait_summarize", !.future["keywords"] = "pending"]
    /\ UNCHANGED <<intakeVars, runVars, ai, store, resume, chunker, deploy, vector, meta, kw, parse, populate>>

\* The pool gives a submission to a worker thread while fewer than
\* max_workers of them are busy.
WorkerStart(j) ==
    /\ jobs.future[j] = "pending"
    /\ Cardinality(Busy) < max_workers
    /\ jobs' = [jobs EXCEPT !.future[j] = "running"]
    /\ UNCHANGED <<intakeVars, runVars, ai, store, resume, chunker, deploy, vector, meta, kw, parse, populate>>

\* execute_batch_job, line 54: BatchPredictionJob.create() creates the job
\* or raises.
JobCreate(j) ==
    /\ jobs.future[j] = "running"
    /\ jobs.job[j] = "none"
    /\ \/ jobs' = [jobs EXCEPT !.job[j] = "queued"]
       \/ jobs' = [jobs EXCEPT !.future[j] = "raised"]
    /\ UNCHANGED <<intakeVars, runVars, ai, store, resume, chunker, deploy, vector, meta, kw, parse, populate>>

\* Vertex AI starts the job.
JobRun(j) ==
    /\ jobs.job[j] = "queued"
    /\ jobs' = [jobs EXCEPT !.job[j] = "running"]
    /\ UNCHANGED <<intakeVars, runVars, ai, store, resume, chunker, deploy, vector, meta, kw, parse, populate>>

\* The job reaches a final state.
JobEnd(j) ==
    /\ jobs.job[j] = "running"
    /\ \E s \in {"succeeded", "failed", "cancelled"} : jobs' = [jobs EXCEPT !.job[j] = s]
    /\ UNCHANGED <<intakeVars, runVars, ai, store, resume, chunker, deploy, vector, meta, kw, parse, populate>>

\* execute_batch_job, lines 66-75: batch_job.wait() has returned; the
\* output URI is returned when the job succeeded, RuntimeError is raised
\* otherwise.
WorkerEnd(j) ==
    /\ jobs.future[j] = "running"
    /\ JobEnded(j)
    /\ jobs' = [jobs EXCEPT !.future[j] = IF jobs.job[j] = "succeeded" THEN "returned" ELSE "raised"]
    /\ UNCHANGED <<intakeVars, runVars, ai, store, resume, chunker, deploy, vector, meta, kw, parse, populate>>

\* Line 462: future_summarize.result()
WaitSummarize ==
    /\ jobs.pc = "wait_summarize"
    /\ ResultReady("summarize")
    /\ jobs' = [jobs EXCEPT !.pc = IF jobs.future["summarize"] = "raised" THEN "except" ELSE "wait_keywords"]
    /\ UNCHANGED <<intakeVars, runVars, ai, store, resume, chunker, deploy, vector, meta, kw, parse, populate>>

\* Line 463: future_keywords.result()
WaitKeywords ==
    /\ jobs.pc = "wait_keywords"
    /\ ResultReady("keywords")
    /\ jobs' = [jobs EXCEPT !.pc = IF jobs.future["keywords"] = "raised" THEN "except" ELSE "parse"]
    /\ UNCHANGED <<intakeVars, runVars, ai, store, resume, chunker, deploy, vector, meta, kw, parse, populate>>

\* Lines 465-491: both outputs are downloaded and parsed.
ParseResults ==
    /\ jobs.pc = "parse"
    /\ jobs' = [jobs EXCEPT !.pc = "exit", !.parsed = TRUE]
    /\ UNCHANGED <<intakeVars, runVars, ai, store, resume, chunker, deploy, vector, meta, kw, parse, populate>>

\* Lines 493-495: the exception of a job halts the stage; the return
\* leaves the with block, which waits for both worker threads.
HaltJobs ==
    /\ jobs.pc = "except"
    /\ \A j \in JobNames : jobs.future[j] \in {"returned", "raised"}
    /\ jobs' = [jobs EXCEPT !.pc = "halted"]
    /\ UNCHANGED <<intakeVars, runVars, ai, store, resume, chunker, deploy, vector, meta, kw, parse, populate>>

\* The end of the with block of line 421 after the results were parsed.
ExitPool ==
    /\ jobs.pc = "exit"
    /\ \A j \in JobNames : jobs.future[j] \in {"returned", "raised"}
    /\ jobs' = [jobs EXCEPT !.pc = "assemble"]
    /\ UNCHANGED <<intakeVars, runVars, ai, store, resume, chunker, deploy, vector, meta, kw, parse, populate>>

\* ------------------------------------- vector index: the deploy script
IndexNames == {"Summary Index", "Detailed Index"}

\* SUMMARY_ENDPOINT_NAME and DETAILED_ENDPOINT_NAME (lines 45-46)
EndpointName(index_name) == IF index_name = "Summary Index" THEN "ctf-summary-endpoint" ELSE "ctf-detailed-endpoint"
EndpointNames == {EndpointName(n) : n \in IndexNames}

\* f"deployed_{index_name.lower().replace(' ', '_')}" (line 91)
BaseDeployedIndexId(index_name) == IF index_name = "Summary Index" THEN "deployed_summary_index" ELSE "deployed_detailed_index"

\* f"{base_deployed_index_id}_{timestamp}" (line 92): the base and the
\* second the id was made in.
DeployedIndexId(base, timestamp) == [base |-> base, timestamp |-> timestamp]

\* deployed.id.startswith(base_deployed_index_id) (line 124)
StartsWith(deployed, base) == deployed.base = base

NoEndpoint == [exists |-> FALSE, deployed |-> {}]
\* An endpoint as the project can hold it before the script runs: none,
\* one without deployments, or one with the deployment of another index.
InitEndpoints == {NoEndpoint, [exists |-> TRUE, deployed |-> {}], [exists |-> TRUE, deployed |-> {DeployedIndexId("other", 1)}]}

\* args.index in ['summary', 'all'], args.index in ['detailed', 'all']
\* (lines 177-181)
IndexesToManage(index) == {n \in IndexNames : index = "all" \/ (index = "summary" /\ n = "Summary Index") \/ (index = "detailed" /\ n = "Detailed Index")}

NoArgs == [action |-> "none", index |-> "none"]
NoDeploy == [pc |-> "idle", index_id |-> [n \in IndexNames |-> FALSE], endpoints |-> [e \in EndpointNames |-> NoEndpoint], now |-> 1, args |-> NoArgs, pending |-> {}, runs |-> 0, last |-> NoArgs, left |-> [e \in EndpointNames |-> NoEndpoint], repeated |-> FALSE]

\* manage_deployment with action 'deploy' (lines 94-111): the endpoint is
\* found or created and the index is deployed under the id of this second;
\* deploy_index raises when the endpoint has a deployment of that id.
Deployed(endpoint, index_name, now) == [exists |-> TRUE, deployed |-> endpoint.deployed \cup {DeployedIndexId(BaseDeployedIndexId(index_name), now)}]

\* manage_deployment with action 'undeploy' (lines 113-148): nothing when
\* the endpoint is not found or has no deployment of the index; otherwise
\* every deployment of the index is undeployed and the endpoint is deleted
\* when it is left empty.
Undeployed(endpoint, index_name) == LET indexes_to_undeploy == {d \in endpoint.deployed : StartsWith(d, BaseDeployedIndexId(index_name))} rest == endpoint.deployed \ indexes_to_undeploy IN IF ~endpoint.exists \/ indexes_to_undeploy = {} THEN endpoint ELSE IF rest = {} THEN NoEndpoint ELSE [exists |-> TRUE, deployed |-> rest]

\* main (lines 153-194): the arguments are parsed and one thread is
\* started for each selected index.
DeployScriptStart(action, index) ==
    /\ deploy.pc = "idle"
    /\ deploy.runs < MaxDeployRuns
    /\ deploy' = [deploy EXCEPT !.pc = "running", !.args = [action |-> action, index |-> index], !.pending = IndexesToManage(index), !.runs = @ + 1, !.last = deploy.args, !.left = deploy.endpoints, !.repeated = (deploy.args = [action |-> action, index |-> index])]
    /\ UNCHANGED <<intakeVars, runVars, ai, store, resume, chunker, jobs, vector, meta, kw, parse, populate>>

\* manage_deployment (lines 76-151) in the thread of one index.
ManageDeployment(index_name) ==
    /\ deploy.pc = "running"
    /\ index_name \in deploy.pending
    /\ LET endpoint == deploy.endpoints[EndpointName(index_name)]
           after == IF ~deploy.index_id[index_name] THEN endpoint ELSE IF deploy.args.action = "deploy" THEN Deployed(endpoint, index_name, deploy.now) ELSE Undeployed(endpoint, index_name)
       IN  deploy' = [deploy EXCEPT !.pending = @ \ {index_name}, !.endpoints[EndpointName(index_name)] = after]
    /\ UNCHANGED <<intakeVars, runVars, ai, store, resume, chunker, jobs, vector, meta, kw, parse, populate>>

\* main (lines 196-199): the threads are joined.
DeployScriptEnd ==
    /\ deploy.pc = "running"
    /\ deploy.pending = {}
    /\ deploy' = [deploy EXCEPT !.pc = "idle"]
    /\ UNCHANGED <<intakeVars, runVars, ai, store, resume, chunker, jobs, vector, meta, kw, parse, populate>>

\* A second passes (datetime.now() of line 90).
Tick ==
    /\ deploy.now < MaxClock
    /\ deploy' = [deploy EXCEPT !.now = @ + 1]
    /\ UNCHANGED <<intakeVars, runVars, ai, store, resume, chunker, jobs, vector, meta, kw, parse, populate>>

\* ------------------------------------ vector index: the orchestrator
\* The steps a command line can name: those of pipeline_steps (main.py
\* lines 118-124) and one that is not a step.
StepNumbers == 4..9
PipelineSteps == 5..9

\* The parameters the main function of each step module declares
\* (5_prepare_embedding_data.py line 128, 6_run_embedding_jobs.py line 83,
\* 7_populate_indexes.py line 175, 8_deploy_indexes.py line 153,
\* 9_test_endpoints.py line 85).
MainParams(step) == IF step = 9 THEN {"query"} ELSE {}

\* The keyword arguments main.py calls it with (lines 119-123).
Keywords(step) == CASE step = 7 -> {"is_complete_overwrite"} [] step = 8 -> {"action", "index_name"} [] step = 9 -> {"query"} [] OTHER -> {}

\* A call binds when every keyword names a parameter; otherwise Python
\* raises TypeError before the body runs.
Binds(step) == Keywords(step) \subseteq MainParams(step)

\* sorted(args.steps) (line 126)
SortedSteps(steps) == LET RECURSIVE From(_) From(n) == IF n > 9 THEN <<>> ELSE (IF n \in steps THEN <<n>> ELSE <<>>) \o From(n + 1) IN From(4)

NoVector == [pc |-> "idle", steps |-> {}, is_complete_overwrite |-> TRUE, query |-> FALSE, index_ids |-> FALSE, input_manifest |-> FALSE, output_manifest |-> FALSE, todo |-> <<>>, completed |-> {}, populated |-> [n \in IndexNames |-> "no"], exit_code |-> -1, raising |-> {}, started |-> <<>>, failed |-> {}]

\* 7_populate_indexes.py, main (lines 175-237) and populate_index (lines
\* 38-46, 153-160): nothing without the index ids or the manifest of step
\* 6; otherwise each index is updated, overwritten or appended to.
PopulateMain(v, is_complete_overwrite) == IF ~v.index_ids \/ ~v.output_manifest THEN v.populated ELSE [n \in IndexNames |-> IF is_complete_overwrite THEN "overwrite" ELSE "append"]

\* The body of a step whose call bound. Step 5 writes the input manifest,
\* step 6 reads it and writes the output manifest; each main wraps its
\* work in try/except Exception, logs the error and returns
\* (5_prepare_embedding_data.py lines 133-163, 6_run_embedding_jobs.py
\* lines 88-144), the steps of v.raising being those whose work raises
\* (MongoDB or the bucket out of reach). Step 9 parses the command line of the orchestrator
\* itself when no query was passed, and argparse exits with status 2 on
\* the --steps it does not know.
StepBody(v, step) == CASE step = 5 -> (IF 5 \in v.raising THEN [v EXCEPT !.failed = @ \cup {5}] ELSE [v EXCEPT !.input_manifest = TRUE]) [] step = 6 -> (IF 6 \in v.raising \/ ~v.input_manifest THEN [v EXCEPT !.failed = @ \cup {6}] ELSE [v EXCEPT !.output_manifest = TRUE]) [] step = 7 -> [v EXCEPT !.populated = PopulateMain(v, v.is_complete_overwrite)] [] step = 9 -> (IF v.query THEN v ELSE [v EXCEPT !.pc = "exited", !.exit_code = 2]) [] OTHER -> v

\* main.py lines 126-136 for one step of the sorted list: an unknown step
\* is skipped, a call that raises ends the process with status 1.
RunStep ==
    /\ vector.pc = "steps"
    /\ vector.todo # <<>>
    /\ LET step == Head(vector.todo)
           skipped == [vector EXCEPT !.todo = Tail(@)]
           v == [skipped EXCEPT !.started = Append(@, step)]
       IN  vector' = IF step \notin PipelineSteps THEN skipped ELSE IF ~Binds(step) THEN [v EXCEPT !.pc = "exited", !.exit_code = 1] ELSE LET w == StepBody(v, step) IN IF w.pc = "exited" THEN w ELSE [w EXCEPT !.completed = @ \cup {step}]
    /\ UNCHANGED <<intakeVars, runVars, ai, store, resume, chunker, jobs, deploy, meta, kw, parse, populate>>

\* main.py line 138: the loop has ended.
PipelineFinished ==
    /\ vector.pc = "steps"
    /\ vector.todo = <<>>
    /\ vector' = [vector EXCEPT !.pc = "exited", !.exit_code = 0]
    /\ UNCHANGED <<intakeVars, runVars, ai, store, resume, chunker, jobs, deploy, meta, kw, parse, populate>>

\* python 7_populate_indexes.py [--no-overwrite], without the orchestrator.
PopulateScript ==
    /\ vector.pc = "script"
    /\ vector' = [vector EXCEPT !.pc = "exited", !.exit_code = 0, !.populated = PopulateMain(vector, vector.is_complete_overwrite)]
    /\ UNCHANGED <<intakeVars, runVars, ai, store, resume, chunker, jobs, deploy, meta, kw, parse, populate>>

\* ------------------------- stages 1 and 3: the metadata of an item
\* Python's None among the strings of a dict (JSON null in the file).
None == "None"
EventNames == {"Unknown Event", "e1", "e2"}
TaskNames == {"Unknown Task", "t1", "t2"}
OriginalUrls == {None, "http://a/w", "http://b/w#s"}

\* The dicts scrape_summary_page returns (1_scrapper.py lines 86-132): the
\* names of the breadcrumb, the link of the original writeup or None,
\* whether the page embeds content; None without either source.
Details == {d \in [event_name : EventNames, task_name : TaskNames, original_url : OriginalUrls, embedded_html : BOOLEAN] : d.original_url # None \/ d.embedded_html}

\* task_info (1_scrapper.py lines 256-263) after task.pop("embedded_html")
\* (line 361): the dict written to <ctftime_id>.meta.json.
MetaDict(ctftime_id, details) == [k \in {"ctftime_id", "event_name", "task_name", "original_url"} |-> CASE k = "ctftime_id" -> Decimal(ctftime_id) [] k = "event_name" -> <<details.event_name>> [] k = "task_name" -> <<details.task_name>> [] OTHER -> <<details.original_url>>]

\* has_content (1_scrapper.py lines 332-354): the external page was
\* fetched, or the summary page embeds content.
HasContentOf(details, fetched) == (details.original_url # None /\ fetched) \/ details.embedded_html

\* 3_ai_batch_process.py lines 509-523: the defaults, and the values of
\* the metadata file when it exists.
LoadMetadata(file) == IF ~file.exists THEN [event_name |-> <<"Unknown Event">>, task_name |-> <<"Unknown Task">>, original_writeup_url |-> <<"">>] ELSE [event_name |-> Get(file.data, "event_name", <<"Unknown Event">>), task_name |-> Get(file.data, "task_name", <<"Unknown Task">>), original_writeup_url |-> Get(file.data, "original_writeup_url", <<"">>)]

NoMetaFile == [exists |-> FALSE, data |-> <<>>]
NoMeta == [pc |-> "idle", ctftime_id |-> 0, details |-> [event_name |-> "", task_name |-> "", original_url |-> None, embedded_html |-> FALSE], file |-> NoMetaFile, final |-> [event_name |-> <<>>, task_name |-> <<>>, original_writeup_url |-> <<>>]]

\* The scraper finds the item on the listing and scrapes its summary page.
ScrapeSummaryPage ==
    /\ meta.pc = "listing"
    /\ \E d \in Details : meta' = [meta EXCEPT !.pc = "details", !.details = d]
    /\ UNCHANGED <<intakeVars, runVars, ai, store, resume, chunker, jobs, deploy, vector, kw, parse, populate>>

\* 1_scrapper.py lines 322-363: the sources are saved, and the metadata
\* file when there was content.
SaveMetadata ==
    /\ meta.pc = "details"
    /\ \E fetched \in BOOLEAN : meta' = [meta EXCEPT !.pc = "scraped", !.file = IF HasContentOf(meta.details, fetched) THEN [exists |-> TRUE, data |-> MetaDict(meta.ctftime_id, meta.details)] ELSE @]
    /\ UNCHANGED <<intakeVars, runVars, ai, store, resume, chunker, jobs, deploy, vector, kw, parse, populate>>

\* 3_ai_batch_process.py lines 507-540: the metadata of the final record
\* of the item.
AssembleMetadata ==
    /\ meta.pc = "scraped"
    /\ meta' = [meta EXCEPT !.pc = "assembled", !.final = LoadMetadata(meta.file)]
    /\ UNCHANGED <<intakeVars, runVars, ai, store, resume, chunker, jobs, deploy, vector, kw, parse, populate>>

\* --------------------------------- stage 3: cleaning the keyword results
\* A keyword text is a sequence of tokens: the two fence markers (three
\* backquotes followed by json: "fence_json"; three backquotes: "fence"),
\* white space, a JSON array or object, or other prose.
JsonTokens == {"[]", "[a]", "{}"}
\* json.loads of one JSON token: a list of strings or a dict.
JsonValue(tok) == CASE tok = "[]" -> [type |-> "list", items |-> <<>>] [] tok = "[a]" -> [type |-> "list", items |-> <<"a">>] [] OTHER -> [type |-> "dict", items |-> <<>>]
EmptyList == [type |-> "list", items |-> <<>>]

\* raw_json.strip() with the marker followed by json and then the bare
\* marker replaced by "" (line 487)
JsonStr(raw_json) == Replace(Replace(Strip(raw_json), "fence_json", <<>>), "fence", <<>>)

\* json.loads(json_str) (line 488): white space around one JSON value is
\* allowed; anything else raises JSONDecodeError.
JsonLoads(json_str) == LET t == SelectSeq(json_str, LAMBDA c : c # " ") IN IF Len(t) = 1 /\ t[1] \in JsonTokens THEN [raised |-> "none", value |-> JsonValue(t[1])] ELSE [raised |-> "JSONDecodeError", value |-> EmptyList]

\* Variant of the except clause that catches nothing.
CaughtNever(exc) == FALSE
\* except json.JSONDecodeError (line 489)
Caught(exc) == exc = "JSONDecodeError"

\* The values of keywords_raw: a text, or a value that is not a string.
KeywordTexts == {<<>>, <<"[a]">>, <<"fence_json", " ", "[a]", " ", "fence">>, <<" ", "fence_json", "[]", "fence", " ">>, <<"prose", "[a]">>, <<"fence">>, <<"[a]", "[a]">>, <<"{}">>}
RawValues == {[kind |-> "str", text |-> t] : t \in KeywordTexts} \cup {[kind |-> "other", text |-> <<>>]}
RawResults == {<<>>} \cup {Put(<<>>, i, v) : i \in Ids, v \in RawValues} \cup {Put(Put(<<>>, 1, v), 2, w) : v \in RawValues, w \in RawValues}

NoKw == [pc |-> "idle", rewritten_ids |-> {}, keywords_raw |-> <<>>, todo |-> {}, keywords |-> <<>>, final |-> <<>>]

\* Lines 480-491 for one item of keywords_raw: a value that is not a
\* string and a text that does not parse give the empty list; an exception
\* the inner except clause does not catch reaches the clause of line 493,
\* which halts the stage.
CleanKeywordItem(item_id) ==
    /\ kw.pc = "clean"
    /\ item_id \in kw.todo
    /\ LET raw_json == kw.keywords_raw[item_id]
           loaded == JsonLoads(JsonStr(raw_json.text))
       IN  kw' = IF raw_json.kind # "str" THEN [kw EXCEPT !.todo = @ \ {item_id}, !.keywords = Put(@, item_id, EmptyList)] ELSE IF loaded.raised = "none" THEN [kw EXCEPT !.todo = @ \ {item_id}, !.keywords = Put(@, item_id, loaded.value)] ELSE IF Caught(loaded.raised) THEN [kw EXCEPT !.todo = @ \ {item_id}, !.keywords = Put(@, item_id, EmptyList)] ELSE [kw EXCEPT !.pc = "halted"]
    /\ UNCHANGED <<intakeVars, runVars, ai, store, resume, chunker, jobs, deploy, vector, meta, parse, populate>>

\* Lines 505-549: a final record for every id of the rewritten texts and
\* of the keywords, with the keywords of the id or the empty list.
AssembleKeywords ==
    /\ kw.pc = "clean"
    /\ kw.todo = {}
    /\ kw' = [kw EXCEPT !.pc = "done", !.final = [i \in kw.rewritten_ids \cup DOMAIN kw.keywords |-> [ctftime_id |-> i, ai_tags |-> Get(kw.keywords, i, EmptyList)]]]
    /\ UNCHANGED <<intakeVars, runVars, ai, store, resume, chunker, jobs, deploy, vector, meta, parse, populate>>

\* ------------------------- stage 3: the result files of a batch job
\* The lines of the files: ids 1 and 2 or none, two different texts.
BlobLines == {l \in [ctftime_id : {NoId, 1, 2}, shape : {"bad_json", "no_candidates", "no_parts", "text"}, text : {Prediction, <<"u">>}] : l.shape = "text" \/ l.text = Prediction}
BlobLineSeqs == {<<>>} \cup {<<l>> : l \in BlobLines} \cup {<<l1, l2>> : l1 \in BlobLines, l2 \in BlobLines}
\* The blobs list_blobs returns: predictions files, and another file of
\* the job.
Blobs == {[predictions |-> TRUE, lines |-> q] : q \in BlobLineSeqs} \cup {[predictions |-> FALSE, lines |-> <<[ctftime_id |-> 1, shape |-> "text", text |-> <<"u">>]>>]}

NoParse == [pc |-> "idle", blobs |-> <<>>, visited |-> 0, results |-> <<>>]

\* Lines 90-138 for one blob: a blob that is no predictions file is passed
\* over, the lines of a predictions file are parsed into results.
ParseBlob ==
    /\ parse.pc = "blobs"
    /\ parse.visited < Len(parse.blobs)
    /\ LET blob == parse.blobs[parse.visited + 1]
       IN  parse' = [parse EXCEPT !.visited = @ + 1, !.results = IF blob.predictions THEN ParseLines(blob.lines, 1, @) ELSE @]
    /\ UNCHANGED <<intakeVars, runVars, ai, store, resume, chunker, jobs, deploy, vector, meta, kw, populate>>

\* Lines 140-141: the results are returned.
ReturnResults ==
    /\ parse.pc = "blobs"
    /\ parse.visited = Len(parse.blobs)
    /\ parse' = [parse EXCEPT !.pc = "returned"]
    /\ UNCHANGED <<intakeVars, runVars, ai, store, resume, chunker, jobs, deploy, vector, meta, kw, populate>>

\* ------------------------- vector index: the two population threads
\* Where populate_index raises for an index: nowhere, while it prepares the
\* cleaned embeddings (lines 47-143, outside its try), or in the update of
\* the index (lines 154-167, inside its try).
RaisePoints == {"no", "prepare", "update"}

NoPopulate == [pc |-> "idle", is_complete_overwrite |-> TRUE, index_ids |-> FALSE, manifest |-> FALSE, raises |-> [n \in IndexNames |-> "no"], thread |-> [n \in IndexNames |-> "new"], populated |-> [n \in IndexNames |-> "no"], complete |-> FALSE, failure |-> FALSE]

\* Lines 188-191: without the index ids main returns.
PopulatePreflight ==
    /\ populate.pc = "start"
    /\ populate' = IF populate.index_ids THEN [populate EXCEPT !.pc = "load"] ELSE [populate EXCEPT !.pc = "returned", !.failure = TRUE]
    /\ UNCHANGED <<intakeVars, runVars, ai, store, resume, chunker, jobs, deploy, vector, meta, kw, parse>>

\* Lines 193-220 and 227-230: the manifest of step 6 is loaded and both
\* threads are started; without the manifest main logs the error and
\* returns.
StartThreads ==
    /\ populate.pc = "load"
    /\ populate' = IF populate.manifest THEN [populate EXCEPT !.pc = "join_summary", !.thread = [n \in IndexNames |-> "prepare"]] ELSE [populate EXCEPT !.pc = "returned", !.failure = TRUE]
    /\ UNCHANGED <<intakeVars, runVars, ai, store, resume, chunker, jobs, deploy, vector, meta, kw, parse>>

\* populate_index in its thread, lines 47-143: the embeddings are cleaned
\* and uploaded. An exception here ends the thread.
ThreadPrepare(n) ==
    /\ populate.thread[n] = "prepare"
    /\ populate' = [populate EXCEPT !.thread[n] = IF populate.raises[n] = "prepare" THEN "raised" ELSE "update"]
    /\ UNCHANGED <<intakeVars, runVars, ai, store, resume, chunker, jobs, deploy, vector, meta, kw, parse>>

\* populate_index in its thread, lines 154-173: the index is updated; an
\* exception is logged and raised again, which ends the thread.
ThreadUpdate(n) ==
    /\ populate.thread[n] = "update"
    /\ populate' = IF populate.raises[n] = "update" THEN [populate EXCEPT !.thread[n] = "raised"] ELSE [populate EXCEPT !.thread[n] = "ended", !.populated[n] = IF populate.is_complete_overwrite THEN "overwrite" ELSE "append"]
    /\ UNCHANGED <<intakeVars, runVars, ai, store, resume, chunker, jobs, deploy, vector, meta, kw, parse>>

\* Lines 222-224: join returns once the thread has ended, however it ended;
\* the exception of a thread stays in that thread.
JoinThread(n) ==
    /\ populate.pc = (IF n = "Summary Index" THEN "join_summary" ELSE "join_detailed")
    /\ populate.thread[n] \in {"ended", "raised"}
    /\ populate' = [populate EXCEPT !.pc = IF n = "Summary Index" THEN "join_detailed" ELSE "joined"]
    /\ UNCHANGED <<intakeVars, runVars, ai, store, resume, chunker, jobs, deploy, vector, meta, kw, parse>>

\* Lines 225 and 234: nothing was raised in main, the step is reported
\* complete.
ReportComplete ==
    /\ populate.pc = "joined"
    /\ populate' = [populate EXCEPT !.pc = "returned", !.complete = TRUE]
    /\ UNCHANGED <<intakeVars, runVars, ai, store, resume, chunker, jobs, deploy, vector, meta, kw, parse>>

\* ------------------------------------------------------------------ init
\* The rejected-IDs log when the pipeline is first run: no entries, or a
\* hand-written "1 # x" whose line has no newline at its end.
InitLedgers == {EmptyFile, [lines |-> <<<<"1", " ", "#", "x">>>>, nl |-> FALSE]}

\* A fresh run directory, an empty collection and no stage process.
InitIntake ==
    /\ ledger \in InitLedgers
    /\ rawFiles = [i \in Ids |-> [k \in Kinds |-> FALSE]]
    /\ extractLen = [i \in Ids |-> [k \in Kinds |-> Unknown]]
    /\ cleanedFiles = {}
    /\ manifestDisk = NoManifest
    /\ reviewLog = <<>>
    /\ aiFiles = {}
    /\ db = {}
    /\ stage = 0
    /\ idx = 0
    /\ manifest = NoManifest
    /\ existing_rejected_ids = {}
    /\ cleaned_text_path = NonePath
    /\ cleaned_summary_path = NonePath
    /\ ioErr = [k \in Kinds |-> "none"]
    /\ all_tasks_for_ai = <<>>
    /\ rewritten_texts = {}
    /\ phase = "none"
    /\ runs = 0
    /\ s1 = NoS1
    /\ exit_status = NoExit
    /\ log = <<>>

\* The variables of the other specifications at rest.
AuxIdle == ai = NoAi /\ store = NoStore /\ resume = NoResume /\ chunker = NoChunker /\ jobs = NoJobs /\ deploy = NoDeploy /\ vector = NoVector /\ meta = NoMeta /\ kw = NoKw /\ parse = NoParse /\ populate = NoPopulate

\* The stage scripts are started by hand on the run directory.
Init ==
    /\ InitIntake
    /\ runner = Manual
    /\ AuxIdle

\* Main.py has created the run directory and is about to start the first
\* script.
InitRunner ==
    /\ InitIntake
    /\ runner = 1
    /\ AuxIdle

\* The intake state machine at rest.
IntakeIdle ==
    /\ InitIntake
    /\ ledger = EmptyFile
    /\ runner = Manual

\* The AI stage has prepared its tasks and is about to build the rewrite
\* requests.
InitAI ==
    /\ IntakeIdle
    /\ ai \in {[NoAi EXCEPT !.pc = "rewrite", !.all_tasks_for_ai = t] : t \in TaskInputs}
    /\ store = NoStore
    /\ resume = NoResume
    /\ populate = NoPopulate
    /\ parse = NoParse
    /\ kw = NoKw
    /\ meta = NoMeta
    /\ vector = NoVector
    /\ deploy = NoDeploy
    /\ jobs = NoJobs
    /\ chunker = NoChunker

\* Step 5 is about to chunk the documents of the collection, or a search
\* has returned the ids of its neighbours.
InitChunk ==
    /\ IntakeIdle
    /\ ai = NoAi
    /\ store = NoStore
    /\ resume = NoResume
    /\ populate = NoPopulate
    /\ parse = NoParse
    /\ kw = NoKw
    /\ meta = NoMeta
    /\ vector = NoVector
    /\ deploy = NoDeploy
    /\ jobs = NoJobs
    /\ chunker \in {[NoChunker EXCEPT !.pc = "prepare", !.docs = d] : d \in DocInputs} \cup {[NoChunker EXCEPT !.pc = "found", !.neighbor_ids = h] : h \in HitSeqs}

\* The AI stage has the rewritten texts and enters the with block of the
\* pool.
InitJobs ==
    /\ IntakeIdle
    /\ ai = NoAi
    /\ store = NoStore
    /\ resume = NoResume
    /\ populate = NoPopulate
    /\ parse = NoParse
    /\ kw = NoKw
    /\ meta = NoMeta
    /\ vector = NoVector
    /\ deploy = NoDeploy
    /\ chunker = NoChunker
    /\ jobs = [NoJobs EXCEPT !.pc = "summarize"]

\* The deploy script has not run; the environment sets the id of an index
\* or not, and the project holds endpoints or not.
InitDeploy ==
    /\ IntakeIdle
    /\ ai = NoAi
    /\ store = NoStore
    /\ resume = NoResume
    /\ populate = NoPopulate
    /\ parse = NoParse
    /\ kw = NoKw
    /\ meta = NoMeta
    /\ vector = NoVector
    /\ chunker = NoChunker
    /\ jobs = NoJobs
    /\ deploy \in {[NoDeploy EXCEPT !.index_id = i, !.endpoints = e, !.left = e] : i \in [IndexNames -> BOOLEAN], e \in [EndpointNames -> InitEndpoints]}

\* The orchestrator has parsed its command line, or the populate script
\* has parsed its own; --no-overwrite stores FALSE in
\* is_complete_overwrite (main.py lines 86-91, 7_populate_indexes.py
\* lines 178-183).
InitVector ==
    /\ IntakeIdle
    /\ ai = NoAi
    /\ store = NoStore
    /\ resume = NoResume
    /\ populate = NoPopulate
    /\ parse = NoParse
    /\ kw = NoKw
    /\ meta = NoMeta
    /\ chunker = NoChunker
    /\ jobs = NoJobs
    /\ deploy = NoDeploy
    /\ vector \in {[NoVector EXCEPT !.pc = "steps", !.steps = s, !.todo = SortedSteps(s), !.is_complete_overwrite = o, !.query = q, !.index_ids = i, !.output_manifest = m, !.raising = r] : s \in (SUBSET StepNumbers) \ {{}}, o \in BOOLEAN, q \in BOOLEAN, i \in BOOLEAN, m \in BOOLEAN, r \in SUBSET {5, 6}} \cup {[NoVector EXCEPT !.pc = "script", !.is_complete_overwrite = o, !.index_ids = i, !.output_manifest = m] : o \in BOOLEAN, i \in BOOLEAN, m \in BOOLEAN}

\* The scraper is about to scrape the summary page of an item.
InitMeta ==
    /\ IntakeIdle
    /\ ai = NoAi
    /\ store = NoStore
    /\ resume = NoResume
    /\ populate = NoPopulate
    /\ parse = NoParse
    /\ kw = NoKw
    /\ chunker = NoChunker
    /\ jobs = NoJobs
    /\ deploy = NoDeploy
    /\ vector = NoVector
    /\ meta \in {[NoMeta EXCEPT !.pc = "listing", !.ctftime_id = i] : i \in Ids}

\* The keyword job has succeeded and its results are parsed: a text for
\* some of the ids.
InitKeywords ==
    /\ IntakeIdle
    /\ ai = NoAi
    /\ store = NoStore
    /\ resume = NoResume
    /\ populate = NoPopulate
    /\ parse = NoParse
    /\ chunker = NoChunker
    /\ jobs = NoJobs
    /\ deploy = NoDeploy
    /\ vector = NoVector
    /\ meta = NoMeta
    /\ kw \in {[NoKw EXCEPT !.pc = "clean", !.rewritten_ids = r, !.keywords_raw = k, !.todo = DOMAIN k] : r \in {{1}, {1, 2}}, k \in RawResults}

\* A batch job has succeeded and its output is about to be parsed: one or
\* two blobs under the prefix.
InitParse ==
    /\ IntakeIdle
    /\ ai = NoAi
    /\ store = NoStore
    /\ resume = NoResume
    /\ populate = NoPopulate
    /\ chunker = NoChunker
    /\ jobs = NoJobs
    /\ deploy = NoDeploy
    /\ vector = NoVector
    /\ meta = NoMeta
    /\ kw = NoKw
    /\ parse \in {[NoParse EXCEPT !.pc = "blobs", !.blobs = b] : b \in {<<x>> : x \in Blobs} \cup {<<x, y>> : x \in Blobs, y \in Blobs}}

\* The populate script has been started.
InitPopulate ==
    /\ IntakeIdle
    /\ ai = NoAi
    /\ store = NoStore
    /\ resume = NoResume
    /\ chunker = NoChunker
    /\ jobs = NoJobs
    /\ deploy = NoDeploy
    /\ vector = NoVector
    /\ meta = NoMeta
    /\ kw = NoKw
    /\ parse = NoParse
    /\ populate \in {[NoPopulate EXCEPT !.pc = "start", !.is_complete_overwrite = o, !.index_ids = i, !.manifest = m, !.raises = r] : o \in BOOLEAN, i \in BOOLEAN, m \in BOOLEAN, r \in [IndexNames -> RaisePoints]}

\* The collection as earlier pipeline runs left it: at most one document
\* per id, in either order.
InitCollections == {<<>>, <<FinalRecord(1, "o")>>, <<FinalRecord(2, "o")>>, <<FinalRecord(1, "o"), FinalRecord(2, "o")>>, <<FinalRecord(2, "o"), FinalRecord(1, "o")>>}

\* The AI stage has left its final files and the storage stage has not run
\* on them yet.
InitStore ==
    /\ IntakeIdle
    /\ ai = NoAi
    /\ \E files \in [Ids -> UNION {FileChoices(i) : i \in Ids}] :
           /\ \A i \in Ids : files[i] \in FileChoices(i)
           /\ \E c \in InitCollections : store = [NoStore EXCEPT !.files = files, !.collection = c]
    /\ resume = NoResume
    /\ populate = NoPopulate
    /\ parse = NoParse
    /\ kw = NoKw
    /\ meta = NoMeta
    /\ vector = NoVector
    /\ deploy = NoDeploy
    /\ jobs = NoJobs
    /\ chunker = NoChunker

\* The scraper has run once on a fresh run directory: its manifest and raw
\* files are on disk, and every raw file has the length its extraction
\* gives.
InitResume ==
    /\ ledger \in InitLedgers
    /\ \E resp \in [Ids -> Responses] :
           LET murls == ManifestUrls(GatherTasks(1, GetRejectedIds(ledger), resp, <<>>))
               written == Written(murls, resp)
           IN  /\ manifestDisk = [exists |-> TRUE, processed_urls |-> BuildEntries(1, murls, resp, TRUE), failed_urls |-> BuildEntries(1, murls, resp, FALSE)]
               /\ rawFiles = [i \in Ids |-> [k \in Kinds |-> <<i, k>> \in written]]
               /\ \E lens \in [Ids -> [Kinds -> Lens]] : extractLen = [i \in Ids |-> [k \in Kinds |-> IF <<i, k>> \in written THEN lens[i][k] ELSE Unknown]]
    /\ cleanedFiles = {}
    /\ reviewLog = <<>>
    /\ aiFiles = {}
    /\ db = {}
    /\ stage = 0
    /\ idx = 0
    /\ manifest = NoManifest
    /\ existing_rejected_ids = {}
    /\ cleaned_text_path = NonePath
    /\ cleaned_summary_path = NonePath
    /\ ioErr = [k \in Kinds |-> "none"]
    /\ all_tasks_for_ai = <<>>
    /\ rewritten_texts = {}
    /\ phase = "none"
    /\ runs = 0
    /\ s1 = NoS1
    /\ exit_status = NoExit
    /\ log = <<>>
    /\ runner = Manual
    /\ ai = NoAi
    /\ store = NoStore
    /\ resume = [manifest |-> manifestDisk, ledger |-> ledger]
    /\ populate = NoPopulate
    /\ parse = NoParse
    /\ kw = NoKw
    /\ meta = NoMeta
    /\ vector = NoVector
    /\ deploy = NoDeploy
    /\ jobs = NoJobs
    /\ chunker = NoChunker

Next ==
    \/ Stage1
    \/ S2Nothing
    \/ S2Start
    \/ S2Skip
    \/ S2Url
    \/ S2Save
    \/ S2Interrupt
    \/ S3InitFail
    \/ S3Nothing
    \/ S3Prepare
    \/ S3Rewrite
    \/ S3Assemble
    \/ Stage4

Spec == Init /\ [][Next]_vars

\* One execution of Main.py.  The manifest the scraper has just written
\* holds only "scraped" entries in processed_urls, so the extraction never
\* skips an entry.
NextRunner ==
    \/ Stage1
    \/ S2Nothing
    \/ S2Start
    \/ S2Url
    \/ S2Save
    \/ S2Interrupt
    \/ S3InitFail
    \/ S3Nothing
    \/ S3Prepare
    \/ S3Rewrite
    \/ S3Assemble
    \/ Stage4

SpecRunner == InitRunner /\ [][NextRunner]_vars

\* One execution of the AI stage whose jobs succeed, with the texts.
NextAI ==
    \/ AIRewrite
    \/ AISummarize
    \/ AIKeywords
    \/ AIAssemble

SpecAI == InitAI /\ [][NextAI]_vars

\* Executions of the storage stage, one after the other, on one set of
\* final files.
NextStore ==
    \/ StoreNoClient
    \/ StoreNoFiles
    \/ StoreConnect
    \/ StoreFile
    \/ StoreClose

SpecStore == InitStore /\ [][NextStore]_vars

\* Executions of the extraction stage on one run directory, interrupted or
\* not, with no I/O error.
NextResume ==
    \/ S2Nothing
    \/ S2Start
    \/ S2Skip
    \/ S2UrlNoError
    \/ S2Save
    \/ S2Interrupt

SpecResume == InitResume /\ [][NextResume]_vars

\* Chunking, and the way back from the ids of chunks to documents.
NextChunk ==
    \/ ChunkDocs
    \/ FindNeighbors
    \/ ResolveNeighbors
    \/ FetchDocuments

SpecChunk == InitChunk /\ [][NextChunk]_vars

\* The main thread, the two worker threads and the two batch jobs.
NextJobs ==
    \/ SubmitSummarize
    \/ SubmitKeywords
    \/ \E j \in JobNames : WorkerStart(j)
    \/ \E j \in JobNames : JobCreate(j)
    \/ \E j \in JobNames : JobRun(j)
    \/ \E j \in JobNames : JobEnd(j)
    \/ \E j \in JobNames : WorkerEnd(j)
    \/ WaitSummarize
    \/ WaitKeywords
    \/ ParseResults
    \/ HaltJobs
    \/ ExitPool

SpecJobs == InitJobs /\ [][NextJobs]_vars

\* Executions of the deploy script, one after the other, and the clock.
NextDeploy ==
    \/ \E action \in {"deploy", "undeploy"}, index \in {"summary", "detailed", "all"} : DeployScriptStart(action, index)
    \/ \E n \in IndexNames : ManageDeployment(n)
    \/ DeployScriptEnd
    \/ Tick

SpecDeploy == InitDeploy /\ [][NextDeploy]_vars

\* The orchestrator's loop, or the populate script run by itself.
NextVector ==
    \/ RunStep
    \/ PipelineFinished
    \/ PopulateScript

SpecVector == InitVector /\ [][NextVector]_vars

\* The metadata of an item from the summary page to the final record.
NextMeta ==
    \/ ScrapeSummaryPage
    \/ SaveMetadata
    \/ AssembleMetadata

SpecMeta == InitMeta /\ [][NextMeta]_vars

\* The cleaning loop over the keyword results and the final assembly.
NextKeywords ==
    \/ \E i \in Ids : CleanKeywordItem(i)
    \/ AssembleKeywords

SpecKeywords == InitKeywords /\ [][NextKeywords]_vars

\* The loop of download_and_parse_results over the blobs.
NextParse ==
    \/ ParseBlob
    \/ ReturnResults

SpecParse == InitParse /\ [][NextParse]_vars

\* main of 7_populate_indexes.py and its two threads.
NextPopulate ==
    \/ PopulatePreflight
    \/ StartThreads
    \/ \E n \in IndexNames : ThreadPrepare(n)
    \/ \E n \in IndexNames : ThreadUpdate(n)
    \/ \E n \in IndexNames : JoinThread(n)
    \/ ReportComplete

SpecPopulate == InitPopulate /\ [][NextPopulate]_vars

\* ----------------------------------------------------------- properties
EntryIds(e) == {e.tasks[k].ctftime_id : k \in 1..Len(e.tasks)}
SeqRange(q) == {q[k] : k \in 1..Len(q)}
\* The entries of both maps of a manifest.
AllEntries(m) == SeqRange(m.processed_urls) \cup SeqRange(m.failed_urls)
\* The loop of extract_and_clean is about to extract the entry at idx.
AtEligible == stage = 2 /\ idx <= Len(manifest.processed_urls) /\ Eligible(manifest.processed_urls[idx])
\* The loop of extract_and_clean is at an entry it must skip.
AtIneligible == stage = 2 /\ idx <= Len(manifest.processed_urls) /\ ~Eligible(manifest.processed_urls[idx])
CurId == manifest.processed_urls[idx].tasks[1].ctftime_id
\* The extracted length of a source of the entry at idx, once this
\* iteration is over; an absent source counts as length 0.
SourceLen(kind) == IF rawFiles[CurId][kind] THEN extractLen'[CurId][kind] ELSE 0
\* The entry at idx after this iteration.
EntryAfter == manifest'.processed_urls[idx]

\* C1: stage 2 changes only entries whose status is "scraped" (an entry
\* with another status keeps all its fields, in memory and in the saved
\* manifest, and nothing is extracted or rejected for it); stage 3 builds
\* requests only for ids of entries whose status is "cleaned", and an id of
\* an entry with another status gets no request and no final record.
C1_Stage2Gate == (stage = 2 /\ stage' = 2) => /\ \A k \in 1..Len(manifest.processed_urls) : (k # idx \/ manifest.processed_urls[k].status # "scraped") => manifest'.processed_urls[k] = manifest.processed_urls[k]
                                              /\ AtIneligible => (ledger' = ledger /\ cleanedFiles' = cleanedFiles /\ extractLen' = extractLen)
C1_Stage2Save == (stage = 2 /\ manifestDisk' # manifestDisk) => /\ Len(manifestDisk'.processed_urls) = Len(manifestDisk.processed_urls)
                                                                /\ manifestDisk'.failed_urls = manifestDisk.failed_urls
                                                                /\ \A k \in 1..Len(manifestDisk.processed_urls) : manifestDisk.processed_urls[k].status # "scraped" => manifestDisk'.processed_urls[k] = manifestDisk.processed_urls[k]
C1_OtherStatusIds == UNION {EntryIds(e) : e \in {x \in AllEntries(manifestDisk) : x.status # "cleaned"}}
C1_CleanedIds == UNION {EntryIds(e) : e \in {x \in SeqRange(manifestDisk.processed_urls) : x.status = "cleaned"}}
C1_Stage3Gate == /\ all_tasks_for_ai' # all_tasks_for_ai => (TaskIds(all_tasks_for_ai') \subseteq C1_CleanedIds /\ TaskIds(all_tasks_for_ai') \cap C1_OtherStatusIds = {})
                 /\ aiFiles' # aiFiles => (stage = 3 /\ (aiFiles' \ aiFiles) \subseteq C1_CleanedIds /\ (aiFiles' \ aiFiles) \cap C1_OtherStatusIds = {})
C1_StageGating == [][C1_Stage2Gate /\ C1_Stage2Save /\ C1_Stage3Gate]_vars
\* The AI stage has built requests from a manifest that also holds a URL
\* which stage 2 rejected or failed to clean, and a final record exists.
C1_Witness == /\ stage = 3
              /\ all_tasks_for_ai # <<>>
              /\ \E e \in SeqRange(manifestDisk.processed_urls) : e.status \in {"rejected_low_quality", "failed_cleaning"}
              /\ \E e \in SeqRange(manifestDisk.processed_urls) : e.status = "cleaned"

\* C2: once the saved manifest gives a URL the status cleaned,
\* rejected_low_quality or failed_cleaning, no stage execution on the run
\* directory gives that URL another status.
C2_Terminal == {"cleaned", "rejected_low_quality", "failed_cleaning"}
C2_StatusNeverRegresses == [][\A e \in SeqRange(manifestDisk.processed_urls) : e.status \in C2_Terminal => \A f \in AllEntries(manifestDisk') : f.url = e.url => f.status = e.status]_vars

\* C3 as stated: for a scraped URL whose sources have extracted lengths
\* (L1, L2), absent counting as 0, stage 2 sets rejected_low_quality iff
\* both are below MIN_CONTENT_LENGTH and cleaned iff one is not.
C3_Decision == /\ EntryAfter.status = "rejected_low_quality" <=> (SourceLen("html") < MIN_CONTENT_LENGTH /\ SourceLen("summary") < MIN_CONTENT_LENGTH)
               /\ EntryAfter.status = "cleaned" <=> (SourceLen("html") >= MIN_CONTENT_LENGTH \/ SourceLen("summary") >= MIN_CONTENT_LENGTH)
\* Every source that exists was read and extracted in this iteration.
C3_Extracted == \A k \in Kinds : rawFiles[CurId][k] => ioErr'[k] # "read"
C4_PassedGate(kind) == rawFiles[CurId][kind] /\ ioErr'[kind] # "read" /\ extractLen'[CurId][kind] >= MIN_CONTENT_LENGTH
C4_PartialSuccessAsStated == [][(AtEligible /\ stage' = 2 /\ (C4_PassedGate("html") \/ C4_PassedGate("summary"))) => (EntryAfter.status = "cleaned" /\ (EntryAfter.cleaned_text_path # NonePath <=> C4_PassedGate("html")) /\ (EntryAfter.cleaned_summary_path # NonePath <=> C4_PassedGate("summary")))]_vars
\* C4 amended: when a source of a scraped URL passes the quality gate and
\* its cleaned text is written, the URL becomes cleaned; cleaned_text_path
\* is recorded iff the primary source passed and was written,
\* cleaned_summary_path iff the summary source passed and was written, and
\* each recorded path names the file that was written.
C4_Passed(kind) == C4_PassedGate(kind) /\ ioErr'[kind] = "none"
C4_Recorded == /\ EntryAfter.status = "cleaned"
               /\ EntryAfter.cleaned_text_path # NonePath <=> C4_Passed("html")
               /\ EntryAfter.cleaned_summary_path # NonePath <=> C4_Passed("summary")
               /\ C4_Passed("html") => (EntryAfter.cleaned_text_path = CleanedPath(CurId, "html") /\ CleanedPath(CurId, "html") \in cleanedFiles')
               /\ C4_Passed("summary") => (EntryAfter.cleaned_summary_path = CleanedPath(CurId, "summary") /\ CleanedPath(CurId, "summary") \in cleanedFiles')
C4_PartialSuccess == [][(AtEligible /\ stage' = 2 /\ (C4_Passed("html") \/ C4_Passed("summary"))) => C4_Recorded]_vars
\* The saved manifest holds a cleaned URL with a summary path and no
\* primary path, although a primary raw file exists for its item.
C4_Witness == \E e \in SeqRange(manifestDisk.processed_urls) : e.status = "cleaned" /\ e.cleaned_summary_path # NonePath /\ e.cleaned_text_path = NonePath /\ rawFiles[e.tasks[1].ctftime_id]["html"]

\* C5: the id of every URL the saved manifest marks rejected_low_quality is
\* in the rejection ledger (as the scraper loads it).
C5_RejectionsRecorded == \A e \in SeqRange(manifestDisk.processed_urls) : e.status = "rejected_low_quality" => EntryIds(e) \subseteq GetRejectedIds(ledger)

\* C6: after a scraper run, no id that was in the rejection ledger when the
\* run started is in a task of the manifest it wrote or of a manual-review
\* entry it appended, and the run requested and wrote nothing for it.
C6_LoggedIds == UNION {EntryIds(reviewLog[k]) : k \in {j \in 1..Len(reviewLog) : j >= s1.logFrom}}
C6_ManifestIds == UNION {EntryIds(e) : e \in AllEntries(manifestDisk)}
C6_RejectedSkipped == s1.ran => \A id \in GetRejectedIds(ledger) : id \notin C6_ManifestIds /\ id \notin C6_LoggedIds /\ id \notin s1.requested /\ \A k \in Kinds : <<id, k>> \notin s1.written
\* A scraper run that started with id 1 in the ledger has forwarded a URL.
C6_Witness == s1.ran /\ 1 \in GetRejectedIds(ledger) /\ manifestDisk.processed_urls # <<>>

\* C7: both loaders of the rejection ledger return the same id set.
C7_LoadersAgree == GetExistingRejectedIds(ledger) = GetRejectedIds(ledger)

\* C8: after stage 2 appends an id to the rejection ledger, loading the
\* ledger returns a set that contains the id.
C8_AddThenLoad == [][(AtEligible /\ ledger' # ledger) => CurId \in GetRejectedIds(ledger')]_vars

\* C9: after a scraper run every task of a group has the group's URL as its
\* source URL without the fragment, every one-item group is in the manifest,
\* every larger group is in neither manifest map and has exactly one
\* manual-review entry, which lists its items, and every manifest entry has
\* one task.
C9_SourceOf(task) == IF task.original_url # NoUrl THEN task.original_url ELSE SummaryUrl(task.ctftime_id)
C9_ManifestUrlSet == {e.url : e \in AllEntries(manifestDisk)}
C9_Grouped == \A a \in 1..Len(s1.map) : /\ \A k \in 1..Len(s1.map[a].tasks) : StripFragment(C9_SourceOf(s1.map[a].tasks[k])) = s1.map[a].url
                                         /\ \A b \in 1..Len(s1.map) : s1.map[b].url = s1.map[a].url => a = b
C9_Routed == \A g \in SeqRange(s1.map) : IF Len(g.tasks) = 1 THEN \E e \in AllEntries(manifestDisk) : e.url = g.url /\ e.tasks = g.tasks ELSE g.url \notin C9_ManifestUrlSet /\ Cardinality({k \in 1..Len(reviewLog) : reviewLog[k].url = g.url}) = 1 /\ \E k \in 1..Len(reviewLog) : reviewLog[k] = g
C9_SourceGrouping == s1.ran => (C9_Grouped /\ C9_Routed /\ \A e \in AllEntries(manifestDisk) : Len(e.tasks) = 1)

\* C10: after a scraper run a forwarded URL is in processed_urls with
\* status scraped iff the run wrote external or embedded content for its
\* item, and else in failed_urls with status failed_scrape; no URL is in
\* both maps and every forwarded URL is in one; what was written exists.
C10_InProcessed(u) == \E k \in 1..Len(manifestDisk.processed_urls) : manifestDisk.processed_urls[k].url = u /\ manifestDisk.processed_urls[k].status = "scraped"
C10_InFailed(u) == \E k \in 1..Len(manifestDisk.failed_urls) : manifestDisk.failed_urls[k].url = u /\ manifestDisk.failed_urls[k].status = "failed_scrape"
C10_Stage1Outcome == s1.ran => /\ \A g \in SeqRange(s1.map) : Len(g.tasks) = 1 => /\ C10_InProcessed(g.url) <=> \E k \in Kinds : <<g.tasks[1].ctftime_id, k>> \in s1.written
                                                                                 /\ C10_InFailed(g.url) <=> ~C10_InProcessed(g.url)
                               /\ \A e \in SeqRange(manifestDisk.processed_urls) : e.status = "scraped" /\ \A f \in SeqRange(manifestDisk.failed_urls) : f.url # e.url
                               /\ \A f \in SeqRange(manifestDisk.failed_urls) : f.status = "failed_scrape"
                               /\ \A w \in s1.written : rawFiles[w[1]][w[2]]
\* A scraper run has left one URL scraped and another failed_scrape.
C10_Witness == s1.ran /\ manifestDisk.processed_urls # <<>> /\ manifestDisk.failed_urls # <<>>

\* -------------------------------------------- properties of the runner
\* The exits of the AI stage in which a batch job ended in a non-success
\* state.
JobFailures == {"rewrite_failed", "summarize_failed", "keywords_failed"}

\* C11: when one of the three batch jobs ends in a non-success state the AI
\* stage exits with a non-zero status, Main.py halts and the storage stage
\* is never started.
C11_FailedJobFatal == \A j \in 1..Len(log) : log[j].why \in JobFailures => (log[j].code # 0 /\ runner = Halted /\ j = Len(log))

\* C12: a stage that finds run_manifest.json missing or unparsable exits
\* with a non-zero status, and Main.py, when it runs the stage, halts.
C12_NoManifestFatal == exit_status.why = "no_manifest" => (exit_status.code # 0 /\ runner \in {Manual, Halted})

\* C13: when the rewrite job gives no result at all the AI stage does not
\* exit with status 0, no summarize or keyword job is submitted, Main.py
\* halts and the storage stage is never started.
C13_NoRewriteResultsFatal == /\ \A j \in 1..Len(log) : log[j].why = "no_rewrite_results" => (log[j].code # 0 /\ runner = Halted /\ j = Len(log))
                             /\ (stage = 3 /\ phase = "summarize_keywords") => rewritten_texts # {}

\* C14: Main.py starts the scripts in the order 1, 2, 3, 4, each after the
\* one before it exited with status 0; after the first non-zero exit no
\* script is started and Main.py exits with status 1; it exits with
\* status 0 only after all four have exited with status 0.
C14_InOrder == \A j \in 1..Len(log) : log[j].script = j /\ (j < Len(log) => log[j].code = 0)
C14_Position == /\ runner = Halted <=> (Len(log) > 0 /\ log[Len(log)].code \notin {0, Running})
                /\ runner = Finished <=> (Len(log) = 4 /\ log[4].code = 0)
                /\ runner \in 1..4 => (Len(log) = runner /\ log[runner].code = Running /\ stage = runner) \/ (Len(log) = runner - 1 /\ stage = 0)
                /\ runner \in {Halted, Finished} => stage = 0
C14_RunnerExit == (RunnerExit = 1 <=> \E j \in 1..Len(log) : log[j].code \notin {0, Running}) /\ (RunnerExit = 0 => Len(log) = 4)
C14_RunnerOrdering == runner # Manual => (C14_InOrder /\ C14_Position /\ C14_RunnerExit)
\* The AI stage exited with a non-zero status after the scraper and the
\* extraction had succeeded, and Main.py halted before the storage stage.
C14_Witness == runner = Halted /\ Len(log) = 3 /\ log[3].code = 1 /\ log[2].code = 0 /\ RunnerExit = 1
\* ------------------------------------------- properties of the data path
\* The rewrite results have been parsed and their lines are still at hand.
C15_Parsed == ai.pc \in {"summarize", "returned"}
\* The lines that carry id i in a record that parses.
C15_LinesOf(i) == {k \in 1..Len(ai.lines) : ai.lines[k].ctftime_id = i /\ ai.lines[k].shape # "bad_json"}

\* C15 as stated: a result record without id, without candidates or without
\* content segments is skipped, so every id of the output mapping comes
\* from a record that held a text and no id is mapped to the empty string.
C15_SkippedAbsentAsStated == C15_Parsed => \A i \in DOMAIN ai.rewritten_texts : ai.rewritten_texts[i] # <<>> /\ \E k \in C15_LinesOf(i) : ai.lines[k].shape = "text"

\* C15 amended: a record without id (or that does not parse) is skipped and
\* adds no key; a record with an id but without candidates or without
\* content segments maps its id to the empty string; the last record of an
\* id decides.
C15_Reconciliation == C15_Parsed => /\ DOMAIN ai.rewritten_texts = {i \in ResultIds : C15_LinesOf(i) # {}}
                                    /\ \A i \in DOMAIN ai.rewritten_texts : LET last == CHOOSE k \in C15_LinesOf(i) : \A j \in C15_LinesOf(i) : j <= k IN ai.rewritten_texts[i] = IF ai.lines[last].shape = "text" THEN Prediction ELSE <<>>

\* A record without id was skipped and a record without candidates put the
\* empty string under its id.
C15_Witness == /\ ai.pc = "summarize"
               /\ \E k \in 1..Len(ai.lines) : ai.lines[k].ctftime_id = NoId /\ ai.lines[k].shape = "text"
               /\ \E k \in 1..Len(ai.lines) : ai.lines[k].shape = "no_candidates" /\ ai.lines[k].ctftime_id \in DOMAIN ai.rewritten_texts /\ ai.rewritten_texts[ai.lines[k].ctftime_id] = <<>>


\* The ids of the three result mappings.
C16_AllIds == (DOMAIN ai.rewritten_texts) \cup (DOMAIN ai.summaries) \cup (DOMAIN ai.keywords)

\* C16: the final assembly writes one record for every id of the union of
\* the three result mappings and for no other id; each of the three fields
\* is the id's value in its mapping when the mapping holds the id, and the
\* empty string or list otherwise.
C16_AssemblyUnion == ai.pc = "done" => /\ DOMAIN ai.final = C16_AllIds
                                       /\ \A i \in C16_AllIds : /\ ai.final[i].ctftime_id = i
                                                                /\ ai.final[i].rewritten_full_text = (IF i \in DOMAIN ai.rewritten_texts THEN ai.rewritten_texts[i] ELSE <<>>)
                                                                /\ ai.final[i].rag_summary = (IF i \in DOMAIN ai.summaries THEN ai.summaries[i] ELSE <<>>)
                                                                /\ ai.final[i].ai_tags = (IF i \in DOMAIN ai.keywords THEN ai.keywords[i] ELSE <<>>)

\* Rewrite results for {1,2}, summaries for {1}, keywords for {2,3}: three
\* records, the one of id 3 with the keyword list alone.
C16_Witness == /\ ai.pc = "done"
               /\ DOMAIN ai.rewritten_texts = {1, 2}
               /\ DOMAIN ai.summaries = {1}
               /\ DOMAIN ai.keywords = {2, 3}
               /\ DOMAIN ai.final = {1, 2, 3}
               /\ ai.final[3].rewritten_full_text = <<>>
               /\ ai.final[3].ai_tags = Prediction
               /\ ai.final[1].ai_tags = <<>>

\* The summarize and keyword requests have been built.
C17_Built == ai.pc \in {"keywords", "assemble", "done"}
C17_Requests == {ai.requests.summarize[k] : k \in 1..Len(ai.requests.summarize)} \cup {ai.requests.keywords[k] : k \in 1..Len(ai.requests.keywords)}

\* C17: every summarize request and every keyword request is for an id of
\* the rewrite results, and its text segment is that id's rewritten text.
C17_RewrittenOnly == C17_Built => \A r \in C17_Requests : r.ctftime_id \in DOMAIN ai.rewritten_texts /\ r.parts[2] = ai.rewritten_texts[r.ctftime_id]

\* Both jobs got a request whose text is the rewritten text of a task whose
\* cleaned text is another text.
C17_Witness == /\ C17_Built
               /\ Len(ai.requests.summarize) > 0
               /\ Len(ai.requests.keywords) > 0
               /\ \A r \in C17_Requests : r.parts[2] = Prediction /\ r.parts[2] # TaskMeta(ai.all_tasks_for_ai, r.ctftime_id).text_content

\* The template's text before and after its write-up marker, with the
\* names of the task filled in.
C18_Prefix(task) == FinalPrompt(Split(get_rewrite_prompt, "$writeup")[1], task.event_name, task.task_name)
C18_Suffix(task) == FinalPrompt(Split(get_rewrite_prompt, "$writeup")[2], task.event_name, task.task_name)

\* C18: whatever the text, the event name and the task name of an item, its
\* rewrite request carries three segments: the template's prefix, the
\* item's text unchanged, and the template's suffix.
C18_TextBetweenPrefixAndSuffix == ai.pc # "rewrite" => \A k \in 1..Len(ai.requests.rewrite) : ai.requests.rewrite[k].parts = <<C18_Prefix(ai.all_tasks_for_ai[k]), ai.all_tasks_for_ai[k].text_content, C18_Suffix(ai.all_tasks_for_ai[k])>>

\* The ids of the final files that hold a record with an id.
C19_RecordIds == {i \in Ids : store.files[i].kind = "json" /\ "ctftime_id" \in DOMAIN store.files[i].data}

\* C19: once an execution of the storage stage has gone through the final
\* files, the collection holds for the id of every file exactly one
\* document, equal to the file's record, and every later execution on the
\* same files leaves the collection as the first one left it.
C19_Idempotent == /\ store.stored >= 1 => store.collection = store.first
                  /\ store.stored >= 1 => \A i \in C19_RecordIds : Cardinality(Matches(store.collection, store.files[i].data.ctftime_id)) = 1 /\ \E k \in 1..Len(store.collection) : store.collection[k] = store.files[i].data

\* Three executions went through two files, one of them replacing the
\* document of an earlier pipeline run; two documents are stored.
C19_Witness == /\ store.stored = 3
               /\ store.pc = "idle"
               /\ C19_RecordIds = {1, 2}
               /\ Len(store.first) = 2
               /\ Len(store.collection) = 2
               /\ \E k \in 1..2 : store.collection[k] = FinalRecord(1, "b")

\* An execution of the extraction stage has just run to its end.
C20_Completed == stage = 0 /\ exit_status.script = 2 /\ exit_status.code = 0

\* C20: when the extraction stage has run to its end, after any number of
\* interrupted executions and of completed ones, the statuses of the
\* manifest and the set of ids of the rejected-IDs log are those one
\* uninterrupted execution gives.
C20_Resumable == C20_Completed => Statuses(manifestDisk) = Statuses(UninterruptedRun.manifest) /\ GetRejectedIds(ledger) = GetRejectedIds(UninterruptedRun.ledger)

\* ----------------------------------- properties of chunks and their ids
\* One document with a text has been chunked; its tokens and its chunks.
C21_OneDoc == chunker.pc = "prepared" /\ Len(chunker.docs) = 1 /\ chunker.docs[1].text.present
C21_N == chunker.docs[1].text.tokens
C21_Ceil(a, b) == (a + b - 1) \div b

\* C21 as stated: a text of N tokens gives
\* ceil(max(N - overlap, 0) / (window - overlap)) chunks.
C21_ChunkCountAsStated == C21_OneDoc => Len(chunker.chunk_list) = C21_Ceil(IF C21_N > CHUNK_OVERLAP THEN C21_N - CHUNK_OVERLAP ELSE 0, CHUNK_SIZE - CHUNK_OVERLAP)

\* C21 amended: a text of N tokens gives ceil(N / (window - overlap))
\* chunks, one for every multiple of the stride below N.
C21_ChunkCount == C21_OneDoc => ~chunker.raised /\ Len(chunker.chunk_list) = C21_Ceil(C21_N, CHUNK_SIZE - CHUNK_OVERLAP)

\* A text that ends within the overlap after a window has one chunk more
\* than the stated formula gives.
C21_Witness == C21_OneDoc /\ C21_N = 2 * (CHUNK_SIZE - CHUNK_OVERLAP) + 1 /\ Len(chunker.chunk_list) = 3

\* The positions the chunks hold, and the tokens chunk k shares with the
\* next one.
C22_Covered == UNION {chunker.chunk_list[k].content.from .. (chunker.chunk_list[k].content.to - 1) : k \in 1..Len(chunker.chunk_list)}
C22_Shared(k) == Cardinality((chunker.chunk_list[k].content.from .. (chunker.chunk_list[k].content.to - 1)) \cap (chunker.chunk_list[k + 1].content.from .. (chunker.chunk_list[k + 1].content.to - 1)))

\* C22 as stated: the chunks of a text of N > 0 tokens cover the positions
\* 0..N-1 and every two consecutive chunks share exactly `overlap` tokens.
C22_CoverageAsStated == (C21_OneDoc /\ C21_N > 0) => /\ C22_Covered = 0..(C21_N - 1)
                                                     /\ \A k \in 1..(Len(chunker.chunk_list) - 1) : C22_Shared(k) = CHUNK_OVERLAP

\* C22 amended: the chunks cover the positions 0..N-1 in order; two
\* consecutive chunks share `overlap` tokens when the earlier one is a full
\* window followed by at least `overlap` tokens, and otherwise the whole
\* of the later chunk, which is shorter than the overlap.
C22_Coverage == (C21_OneDoc /\ C21_N > 0) => /\ C22_Covered = 0..(C21_N - 1)
                                             /\ \A k \in 1..(Len(chunker.chunk_list) - 1) : /\ chunker.chunk_list[k].content.from < chunker.chunk_list[k + 1].content.from
                                                                                            /\ C22_Shared(k) = Min(CHUNK_OVERLAP, C21_N - chunker.chunk_list[k + 1].content.from)
                                                                                            /\ (C22_Shared(k) < CHUNK_OVERLAP => chunker.chunk_list[k + 1].content.to - chunker.chunk_list[k + 1].content.from = C22_Shared(k))

\* Three chunks: the first two share the overlap, the last one is five
\* tokens long and lies within the second.
C22_Witness == C21_OneDoc /\ Len(chunker.chunk_list) = 3 /\ C22_Shared(1) = CHUNK_OVERLAP /\ C22_Shared(2) = 5

\* C23: the k chunks of a document have the ids doc_id_chunk_0 ..
\* doc_id_chunk_(k-1) in order, chunk i starts at token i * (window -
\* overlap), and the ids are pairwise distinct.
C23_ChunkIds == C21_OneDoc => \A k \in 1..Len(chunker.chunk_list) : /\ chunker.chunk_list[k].id = Decimal(chunker.docs[1].ctftime_id) \o <<"_", "chunk", "_">> \o Decimal(k - 1)
                                                                    /\ chunker.chunk_list[k].content.from = (k - 1) * (CHUNK_SIZE - CHUNK_OVERLAP)
                                                                    /\ \A j \in 1..Len(chunker.chunk_list) : j # k => chunker.chunk_list[j].id # chunker.chunk_list[k].id

\* A document with four chunks, the last one numbered 3 and starting at
\* token 1275.
C23_Witness == C21_OneDoc /\ Len(chunker.chunk_list) = 4 /\ chunker.chunk_list[4].id = <<"7", "_", "chunk", "_", "3">> /\ chunker.chunk_list[4].content.from = 1275

\* The chunks whose id starts with the id of document k.
C24_ChunksOf(k) == {j \in 1..Len(chunker.chunk_list) : Len(chunker.chunk_list[j].id) > Len(Decimal(chunker.docs[k].ctftime_id)) /\ SubSeq(chunker.chunk_list[j].id, 1, Len(Decimal(chunker.docs[k].ctftime_id)) + 1) = Decimal(chunker.docs[k].ctftime_id) \o <<"_">>}

\* C24: a document whose text is empty or missing gets no chunk and raises
\* no error, and every other document of the collection gets its chunks.
C24_EmptyText == chunker.pc = "prepared" => /\ ~chunker.raised
                                            /\ \A k \in 1..Len(chunker.docs) : Cardinality(C24_ChunksOf(k)) = (IF chunker.docs[k].text.present THEN C21_Ceil(chunker.docs[k].text.tokens, CHUNK_SIZE - CHUNK_OVERLAP) ELSE 0)

\* The first document has no text field, the second is chunked in two.
C24_Witness == /\ chunker.pc = "prepared"
               /\ Len(chunker.docs) = 2
               /\ ~chunker.docs[1].text.present
               /\ chunker.docs[2].text.tokens = CHUNK_SIZE + 1
               /\ Len(chunker.chunk_list) = 2
               /\ C24_ChunksOf(1) = {}

RECURSIVE C25_Prefix(_)
\* The part of an id before its first underscore.
C25_Prefix(id) == IF id = <<>> \/ Head(id) = "_" THEN <<>> ELSE <<Head(id)>> \o C25_Prefix(Tail(id))

\* C25: the document ids resolved from the hit ids are exactly the
\* prefixes before the first underscore of the hit ids, as a set.
C25_Resolve == chunker.pc = "resolved" => chunker.doc_ids = {C25_Prefix(chunker.neighbor_ids[k]) : k \in 1..Len(chunker.neighbor_ids)}

\* ["7_chunk_0", "7_chunk_1", "9_chunk_0"] resolves to {"7", "9"}.
C25_Witness == /\ chunker.pc = "resolved"
               /\ chunker.neighbor_ids = <<<<"7", "_", "chunk", "_", "0">>, <<"7", "_", "chunk", "_", "1">>, <<"9", "_", "chunk", "_", "0">>>>
               /\ chunker.doc_ids = {<<"7">>, <<"9">>}

\* The ids of all chunks of one document were resolved.
C26_OneDocResolved == chunker.pc = "resolved" /\ Len(chunker.docs) = 1

\* C26 as stated: for every document id d and every text, the ids of the
\* chunks of (d, text) resolve to {d}.
C26_RoundTripAsStated == C26_OneDocResolved => chunker.doc_ids = {Decimal(chunker.docs[1].ctftime_id)}

\* C26 amended: for every document id d and every text of at least one
\* token, the ids of the chunks of (d, text) resolve to {d}; a text that
\* is empty or missing has no chunk and resolves to the empty set.
C26_RoundTrip == C26_OneDocResolved => chunker.doc_ids = (IF HasText(chunker.docs[1]) THEN {Decimal(chunker.docs[1].ctftime_id)} ELSE {})

\* Four chunk ids of document 7 resolve to {"7"}.
C26_Witness == C26_OneDocResolved /\ Len(chunker.neighbor_ids) = 4 /\ chunker.doc_ids = {<<"7">>}


\* ------------------------------- properties of the summarize/keyword jobs
C27_Submitted(j) == jobs.future[j] # "none"
C27_Waiting == jobs.pc \in {"wait_summarize", "wait_keywords"}
C27_Parsing == jobs.pc = "parse" \/ jobs.parsed
\* C27: the main thread waits for a result only when both jobs were
\* submitted, and it parses the results only when both batch jobs have
\* ended and both submissions have finished; that the two jobs run at the
\* same time is the state of C27_Witness.
C27_Concurrent ==
    /\ C27_Waiting => \A j \in JobNames : C27_Submitted(j)
    /\ C27_Parsing => \A j \in JobNames : JobEnded(j) /\ ResultReady(j)
\* The main thread waits for the summarize job while both batch jobs are
\* running.
C27_Witness == jobs.pc = "wait_summarize" /\ \A j \in JobNames : jobs.job[j] = "running" /\ jobs.future[j] = "running"
\* The results were parsed.
C27_WitnessParsed == jobs.parsed /\ jobs.pc = "assemble"

\* --------------------------------------- properties of the deploy script
\* The deployed indexes of every endpoint; an endpoint that does not exist
\* has none.
C28_DeployedIndexes(endpoints) == [e \in EndpointNames |-> endpoints[e].deployed]
\* The execution that has just ended repeated the action and the index of
\* the one before it.
C28_Repeated == deploy.pc = "idle" /\ deploy.runs >= 2 /\ deploy.repeated
\* C28: when the script is run a second time with the same action and the
\* same index, every endpoint has the deployed indexes the first of the two
\* executions left.
C28_Idempotent == C28_Repeated => C28_DeployedIndexes(deploy.endpoints) = C28_DeployedIndexes(deploy.left)
\* Undeploying is idempotent: the second undeploy of an index changes no
\* endpoint.
C28_UndeployIdempotent == C28_Repeated /\ deploy.args.action = "undeploy" => deploy.endpoints = deploy.left
\* An index was undeployed twice, the first time from an endpoint that
\* held it.
C28_Witness == C28_Repeated /\ deploy.args.action = "undeploy" /\ deploy.runs = 3 /\ \E e \in EndpointNames : ~deploy.endpoints[e].exists

\* ------------------------------ properties of the vector-index orchestrator
\* The orchestrator has ended after a command line that named step 7, with
\* the index ids set and the embeddings of step 6 at hand.
C29_Step7Run == vector.pc = "exited" /\ 7 \in vector.steps /\ vector.index_ids /\ vector.output_manifest
\* C29: after the orchestrator ran with step 7 selected, both indexes are
\* populated, by appending when --no-overwrite was given and by a complete
\* overwrite otherwise.
C29_Populates == C29_Step7Run => \A n \in IndexNames : vector.populated[n] = (IF vector.is_complete_overwrite THEN "overwrite" ELSE "append")
\* What the orchestrator does with step 7: it ends with status 1 and no
\* index populated.
C29_Step7Fails == vector.pc = "exited" /\ 7 \in vector.steps /\ vector.exit_code # 2 => vector.exit_code = 1 /\ 7 \notin vector.completed /\ \A n \in IndexNames : vector.populated[n] = "no"
\* The populate script run by itself does what the claim says.
C29_ScriptPopulates == vector.pc = "exited" /\ vector.steps = {} /\ vector.index_ids /\ vector.output_manifest => \A n \in IndexNames : vector.populated[n] = (IF vector.is_complete_overwrite THEN "overwrite" ELSE "append")
C29_Witness == C29_Step7Run /\ ~vector.is_complete_overwrite /\ vector.exit_code = 1

\* ------------------------------------ properties of the extraction outcome
\* The extraction stage is at an entry with status scraped and a task, and
\* takes it.
C30_Takes == stage = 2 /\ idx <= Len(manifest.processed_urls) /\ Eligible(manifest.processed_urls[idx]) /\ idx' = idx + 1
C30_Id == manifest.processed_urls[idx].tasks[1].ctftime_id
\* The source gave a cleaned file in this iteration.
C30_Produced(k) == (IF k = "html" THEN cleaned_text_path' ELSE cleaned_summary_path') = CleanedPath(C30_Id, k)
\* The source was read and its text measured shorter than the minimum.
C30_Measured(k) == rawFiles[C30_Id][k] /\ ioErr'[k] # "read" /\ extractLen'[C30_Id][k] # Unknown /\ extractLen'[C30_Id][k] < MIN_CONTENT_LENGTH
C30_Status == manifest'.processed_urls[idx].status
\* No entry the loop has passed is still scraped with a task.
C30_NoneLeft == stage = 2 => \A k \in 1..(idx - 1) : ~Eligible(manifest.processed_urls[k])
\* C30: the iteration of stage 2 on a scraped URL with a task gives it one
\* of the statuses cleaned, rejected_low_quality and failed_cleaning, and
\* failed_cleaning exactly when neither source gave a cleaned file and
\* neither was measured as low quality; the loop leaves no such URL behind.
C30_Total ==
    /\ [][C30_Takes => /\ C30_Status \in {"cleaned", "rejected_low_quality", "failed_cleaning"}
                       /\ C30_Status = "failed_cleaning" <=> \A k \in Kinds : ~C30_Produced(k) /\ ~C30_Measured(k)]_vars
    /\ []C30_NoneLeft
\* A URL whose primary file could not be read and that has no summary file
\* was set to failed_cleaning.
C30_Witness == stage = 2 /\ idx > 1 /\ manifest.processed_urls[idx - 1].status = "failed_cleaning" /\ ioErr["html"] = "read" /\ cleaned_text_path = NonePath /\ cleaned_summary_path = NonePath

\* ------------------------------------------- properties of the metadata
\* The final record of an item was assembled and the scraper had saved the
\* item's metadata file.
C31_Assembled == meta.pc = "assembled" /\ meta.file.exists
\* C31: the event name, the task name and the original write-up URL of the
\* final record are the values of the item's metadata file.
C31_Metadata == C31_Assembled => meta.final.event_name = meta.file.data["event_name"] /\ meta.final.task_name = meta.file.data["task_name"] /\ meta.final.original_writeup_url = meta.file.data["original_url"]
\* The two names are carried over.
C31_Names == C31_Assembled => meta.final.event_name = meta.file.data["event_name"] /\ meta.final.task_name = meta.file.data["task_name"]
\* The URL of the final record is always empty.
C31_UrlEmpty == meta.pc = "assembled" => meta.final.original_writeup_url = <<"">>
C31_Witness == C31_Assembled /\ meta.file.data["original_url"] = <<"http://a/w">> /\ meta.final.event_name = <<"e1">>

\* ------------------------------------ properties of the keyword cleaning
\* The text of the item, the fence markers removed, is not one JSON value.
C32_Unparsable(i) == kw.keywords_raw[i].kind = "str" /\ LET t == SelectSeq(kw.keywords_raw[i].text, LAMBDA c : c \notin {" ", "fence_json", "fence"}) IN ~(Len(t) = 1 /\ t[1] \in JsonTokens)
\* C32: the stage is never halted by a keyword text; an item whose text
\* does not parse gets the empty keyword list once the loop has visited it,
\* and a final record with the empty list when the records are assembled.
C32_NeverFails ==
    /\ kw.pc # "halted"
    /\ \A i \in DOMAIN kw.keywords_raw : C32_Unparsable(i) /\ i \notin kw.todo => kw.keywords[i] = EmptyList
    /\ kw.pc = "done" => \A i \in DOMAIN kw.keywords_raw : i \in DOMAIN kw.final /\ (C32_Unparsable(i) => kw.final[i].ai_tags = EmptyList)
\* The records are assembled; the text of item 1 was empty and that of
\* item 2 prose before an array.
C32_Witness == kw.pc = "done" /\ DOMAIN kw.keywords_raw = {1, 2} /\ kw.keywords_raw[1].text = <<>> /\ kw.keywords_raw[1].kind = "str" /\ kw.keywords_raw[2].text = <<"prose", "[a]">> /\ kw.final[2].ai_tags = EmptyList

\* ------------------------------------- properties of the result files
\* The positions <<blob, line>> of the well-formed lines of the predictions
\* files that carry an id, and the order they are read in.
C33_WellFormed == {p \in (1..Len(parse.blobs)) \X (1..2) : /\ parse.blobs[p[1]].predictions
                                                           /\ p[2] <= Len(parse.blobs[p[1]].lines)
                                                           /\ parse.blobs[p[1]].lines[p[2]].shape # "bad_json"
                                                           /\ parse.blobs[p[1]].lines[p[2]].ctftime_id # NoId}
C33_Line(p) == parse.blobs[p[1]].lines[p[2]]
C33_Before(p, q) == p[1] < q[1] \/ (p[1] = q[1] /\ p[2] <= q[2])
C33_TextOf(l) == IF l.shape = "text" THEN l.text ELSE <<>>
\* Some line of a predictions file is not JSON.
C33_Malformed == \E b \in 1..Len(parse.blobs) : parse.blobs[b].predictions /\ \E k \in 1..Len(parse.blobs[b].lines) : parse.blobs[b].lines[k].shape = "bad_json"
\* C33: when the results are returned, the ids of the mapping are those of
\* the well-formed lines of all predictions files, whatever lines around
\* them are not JSON, and each id has the text of the last well-formed line
\* that carries it.
C33_OnlyCoverage == parse.pc = "returned" => /\ DOMAIN parse.results = {C33_Line(p).ctftime_id : p \in C33_WellFormed}
                                             /\ \A p \in C33_WellFormed : (\A q \in C33_WellFormed : C33_Line(q).ctftime_id = C33_Line(p).ctftime_id => C33_Before(q, p)) => parse.results[C33_Line(p).ctftime_id] = C33_TextOf(C33_Line(p))
\* The first file holds a line that is not JSON before the line of item 1,
\* the second file the line of item 2; both are in the mapping.
C33_Witness == /\ parse.pc = "returned"
               /\ Len(parse.blobs) = 2
               /\ parse.blobs[1].predictions /\ Len(parse.blobs[1].lines) = 2 /\ parse.blobs[1].lines[1].shape = "bad_json" /\ parse.blobs[1].lines[2] = [ctftime_id |-> 1, shape |-> "text", text |-> <<"u">>]
               /\ parse.blobs[2].predictions /\ parse.blobs[2].lines = <<[ctftime_id |-> 2, shape |-> "text", text |-> Prediction]>>
               /\ DOMAIN parse.results = {1, 2} /\ parse.results[1] = <<"u">>

\* --------------------------- properties of the order of the vector steps
C34_Ascending(q) == \A i \in 1..Len(q) : \A j \in 1..Len(q) : i < j => q[i] < q[j]
\* The orchestrator runs the selected steps of 5..9 in ascending order and
\* never one outside 5..9.
C34_Order == C34_Ascending(vector.started) /\ \A i \in 1..Len(vector.started) : vector.started[i] \in vector.steps \cap PipelineSteps
\* A step has failed: its call raised, or its main took its failure path
\* or ended the process itself.
C34_Failed(step) == step \in vector.failed \/ (vector.pc = "exited" /\ vector.exit_code # 0 /\ vector.started # <<>> /\ vector.started[Len(vector.started)] = step)
\* C34: the selected steps of 5..9 are run in ascending order, and once a
\* step has failed the process has ended with status 1 and that step is
\* the last one started.
C34_FailureStops == /\ C34_Order
                    /\ \A step \in PipelineSteps : C34_Failed(step) => vector.pc = "exited" /\ vector.exit_code = 1 /\ vector.started[Len(vector.started)] = step
\* Without a failure every selected step of 5..9 has run when the
\* orchestrator ends with status 0.
C34_AllRun == vector.pc = "exited" /\ vector.steps # {} /\ vector.exit_code = 0 /\ vector.failed = {} => {vector.started[i] : i \in 1..Len(vector.started)} = vector.steps \cap PipelineSteps /\ vector.completed = vector.steps \cap PipelineSteps
\* A raised exception ends the process with status 1 and nothing is started
\* after it.
C34_RaiseStops == vector.exit_code = 1 => vector.pc = "exited" /\ vector.todo # SortedSteps(vector.steps) /\ vector.started[Len(vector.started)] \notin vector.completed
C34_Witness == vector.pc = "exited" /\ vector.steps = {4, 5, 6, 9} /\ 5 \in vector.failed /\ vector.started = <<5, 6, 9>> /\ vector.exit_code = 0

\* --------------------------------- properties of the population threads
\* main has returned after it started the threads, and a thread raised.
C35_Raised == populate.pc = "returned" /\ \E n \in IndexNames : populate.thread[n] = "raised"
\* C35: when a population thread raised, main takes its failure path after
\* the joins and does not report step 7 complete, and the other thread has
\* run to its end.
C35_NotSwallowed == C35_Raised => populate.failure /\ ~populate.complete /\ \A n \in IndexNames : populate.thread[n] \in {"ended", "raised"}
\* What the code does: once the threads are started main reports the step
\* complete, whatever happened in them.
C35_Swallowed == populate.pc = "returned" /\ (\E n \in IndexNames : populate.thread[n] # "new") => populate.complete /\ ~populate.failure
\* The other thread runs to its end: when main returns both threads have
\* ended, and a thread that did not raise has updated its index.
C35_SiblingRuns == populate.pc = "returned" /\ (\E n \in IndexNames : populate.thread[n] # "new") => \A n \in IndexNames : populate.thread[n] \in {"ended", "raised"} /\ (populate.raises[n] = "no" => populate.populated[n] = (IF populate.is_complete_overwrite THEN "overwrite" ELSE "append"))
C35_Witness == C35_Raised /\ populate.thread["Summary Index"] = "raised" /\ populate.populated["Detailed Index"] = "append" /\ populate.complete

\* ------------------------------- properties of the fetch by resolved id
\* C36: every stored document that has chunks is returned by the query
\* with the ids resolved from its chunk ids.
C36_IdsMatch == chunker.pc = "fetched" => \A k \in 1..Len(chunker.docs) : (\E c \in 1..Len(chunker.neighbor_ids) : BaseId(chunker.neighbor_ids[c]) = Decimal(chunker.docs[k].ctftime_id)) => k \in chunker.fetched
\* What the code does: the resolved ids have the digits of the stored ids
\* but are strings, and the query finds no document.
C36_NothingFetched == chunker.pc = "fetched" => /\ chunker.fetched = {}
                                                /\ \A k \in 1..Len(chunker.docs) : HasText(chunker.docs[k]) => Decimal(chunker.docs[k].ctftime_id) \in chunker.doc_ids /\ StoredId(chunker.docs[k]).type = "int" /\ BsonStr(Decimal(chunker.docs[k].ctftime_id)).type = "str"
C36_Witness == chunker.pc = "fetched" /\ Len(chunker.docs) = 2 /\ chunker.doc_ids = {<<"7">>, <<"4", "0", "3", "3", "8">>} /\ chunker.fetched = {}

\* ------------------------------ properties of the evidence of a rejection
\* The extraction stage takes an entry and adds its id to the rejected-IDs
\* log.
C37_Adds == stage = 2 /\ idx <= Len(manifest.processed_urls) /\ Eligible(manifest.processed_urls[idx]) /\ idx' = idx + 1 /\ ledger' # ledger
C37_Id == manifest.processed_urls[idx].tasks[1].ctftime_id
\* The source was read and extracted without error in this iteration and
\* its text was shorter than the minimum.
C37_BelowThreshold(k) == ioErr'[k] = "none" /\ extractLen'[C37_Id][k] # Unknown /\ extractLen'[C37_Id][k] < MIN_CONTENT_LENGTH
\* C37: an id is added to the rejected-IDs log only when every raw source
\* file the item has was read and extracted without error and measured
\* below the threshold.
C37_RealEvidence == [][C37_Adds => \A k \in Kinds : rawFiles[C37_Id][k] => C37_BelowThreshold(k)]_vars
\* What the code guarantees: some source was measured below the threshold,
\* no source gave a cleaned file, and a source that was not measured is
\* missing or failed while it was read, extracted or written.
C37_SomeEvidence == [][C37_Adds => /\ \E k \in Kinds : rawFiles[C37_Id][k] /\ C37_BelowThreshold(k)
                                   /\ cleaned_text_path' \in {NonePath, LowQuality} /\ cleaned_summary_path' \in {NonePath, LowQuality}
                                   /\ \A k \in Kinds : rawFiles[C37_Id][k] => C37_BelowThreshold(k) \/ ioErr'[k] # "none"]_vars
C37_Witness == stage = 2 /\ idx > 1 /\ manifest.processed_urls[idx - 1].status = "rejected_low_quality" /\ ioErr["summary"] = "read" /\ cleaned_text_path = LowQuality /\ cleaned_summary_path = NonePath /\ manifest.processed_urls[idx - 1].tasks[1].ctftime_id \in GetRejectedIds(ledger)

\* ----------------------------------- properties of the final records
\* C38: final records are written only by an execution of the AI stage
\* whose rewrite job gave results and whose summarize and keyword jobs both
\* succeeded; an execution that ends in any other way leaves the final
\* records of the run directory as they were.
C38_AllOrNothing == /\ [][aiFiles' # aiFiles => stage = 3 /\ phase = "summarize_keywords" /\ rewritten_texts # {} /\ exit_status' = [script |-> 3, code |-> 0, why |-> "ok"]]_vars
                    /\ [][stage = 3 /\ stage' = 0 /\ exit_status'.why # "ok" => aiFiles' = aiFiles]_vars
                    /\ [](stage = 3 /\ phase = "summarize_keywords" => rewritten_texts # {})
\* The AI stage had rewritten texts, its keyword job failed, and the run
\* directory holds no final record.
C38_Witness == stage = 0 /\ exit_status = [script |-> 3, code |-> 0, why |-> "keywords_failed"] /\ aiFiles = {} /\ \E k \in 1..Len(manifestDisk.processed_urls) : manifestDisk.processed_urls[k].status = "cleaned"

\* ------------------------------------ properties of the late stages
\* A step of the AI stage or of the storage stage.
C39_LateStep == stage = 3 \/ stage' = 3 \/ (runs' = runs + 1 /\ exit_status'.script \in {3, 4})
\* C39: the AI stage and the storage stage leave the manifest file and the
\* rejected-IDs log as they are, however they end.
C39_Frame == [][C39_LateStep => manifestDisk' = manifestDisk /\ ledger' = ledger]_vars
\* The storage stage has stored a record while the manifest holds a cleaned
\* URL and the log a rejected id.
C39_Witness == stage = 0 /\ exit_status = [script |-> 4, code |-> 0, why |-> "ok"] /\ db # {} /\ ledger.lines # <<>> /\ \E k \in 1..Len(manifestDisk.processed_urls) : manifestDisk.processed_urls[k].status = "cleaned"
====
